---- MODULE Spec2Model ----
(***************************************************************************)
(* A model of the relocate-midi decoding pipeline: the byte Scanner, its   *)
(* variable-length-quantity reader, and the track-event decoders of the    *)
(* crate (core/chunk/track, file/event/track, description/track).          *)
(*                                                                         *)
(* The chunk runs add the two chunk splitters (midi/mod.rs and             *)
(* file/chunk/mod.rs), the classification of the raw chunks and the three  *)
(* header decoders (chunk/header.rs, description/header.rs, and            *)
(* file/chunk/header.rs with core/chunk/header).                           *)
(*                                                                         *)
(* Bytes are naturals in 0..255.  Option<T> is a sequence of length 0      *)
(* (None) or 1 (Some(x)).  A cursor is the number of bytes consumed, so    *)
(* the byte right behind cursor c of slice b is b[c + 1].                  *)
(***************************************************************************)
EXTENDS Integers, Sequences, FiniteSets, TLC

VARIABLES
    bytes,            \* Scanner.bytes: the slice being scanned
    cursor,           \* Scanner.cursor
    op,               \* the Scanner method applied last (scanner runs)
    ret,              \* what that method returned
    arg,              \* the argument it was given (0 when it takes none)
    target_pointer_width, \* the width of usize in the build: 32 or 64
    files,            \* the raw chunks the chunk splitter has collected
    decoder,          \* which track decoder of the crate is running
    debug_assertions, \* whether the build checks debug_assert!
    tracks,           \* the data of the file's track chunks, in file order
    ti,               \* how many track chunks have been handed to the decoder
    running_status,   \* the decode loop's local running_status
    events,           \* the decode loop's local events vector
    result,           \* how the current track decode stands
    error,            \* the error a failed track decode returned
    chunks            \* the decoded track chunks collected by the caller

vars == <<bytes, cursor, op, ret, arg, target_pointer_width, files, decoder,
          debug_assertions, tracks, ti, running_status, events, result, error,
          chunks>>

scannerVars == <<bytes, cursor, op, ret, arg>>
trackVars == <<decoder, debug_assertions, tracks, ti, running_status, events,
               result, error, chunks, target_pointer_width, files>>

----------------------------------------------------------------------------
(* Bounds of the exploration.                                              *)

\* Longest slice handed to the Scanner in the scanner runs.
MaxScanLen == 5

\* Most items (fragments or track breaks) a modelled file is built from.
MaxItems == 3

\* Most pieces (chunk images, cut-off prefixes) a file buffer is built from
\* in the chunk runs.
MaxFileItems == 2

\* Most bytes that trail the six bytes of a header chunk's data.
MaxTrailing == 2

----------------------------------------------------------------------------
(* Option<T>.                                                              *)

None == <<>>
Some(x) == <<x>>
IsSome(o) == Len(o) = 1
Unwrap(o) == o[1]

\* `value << 7` on a u32: the 7 high bits are shifted out.  (The model
\* checker's integers are 32-bit signed; a product of 2^31 or more stops the
\* check with an overflow error instead of yielding a wrong value.)
U32Shl7(value) == (value % 33554432) * 128

----------------------------------------------------------------------------
(* Scanner (scanner.rs).  Every method is an operator from the slice and   *)
(* the cursor to the returned value and the cursor afterwards.             *)

\* A test for the end of the slice that is met one byte early as well.
doneBeforeLast(b, c) == c + 1 >= Len(b)

\* Scanner::done
done(b, c) == c = Len(b)

\* Scanner::peek
peek(b, c) == IF c < Len(b) THEN Some(b[c + 1]) ELSE None

\* An eat that moves the cursor even when no byte is left.
EatAdvancesAtEnd(b, c) == [ret |-> peek(b, c), cursor |-> c + 1]

\* Scanner::eat: `let peeked = self.peek()?; self.cursor += 1;`
eat(b, c) ==
    IF IsSome(peek(b, c))
    THEN [ret |-> peek(b, c), cursor |-> c + 1]
    ELSE [ret |-> None, cursor |-> c]

\* An eat_slice that, short of n bytes, consumes what is left.
EatSliceDrainsOnShortage(b, c, n) ==
    IF c + n > Len(b)
    THEN [ret |-> None, cursor |-> Len(b)]
    ELSE [ret |-> Some(SubSeq(b, c + 1, c + n)), cursor |-> c + n]

\* Scanner::eat_slice: absent, without advancing, when fewer than n remain.
eat_slice(b, c, n) ==
    LET end_cursor == c + n
    IN  IF end_cursor > Len(b)
        THEN [ret |-> None, cursor |-> c]
        ELSE [ret |-> Some(SubSeq(b, c + 1, end_cursor)), cursor |-> end_cursor]

\* Scanner::eat_bytes::<N>: eat_slice(N) as an array; the conversion of a
\* slice of N bytes to [u8; N] cannot fail.
eat_bytes(b, c, N) == eat_slice(b, c, N)

\* u16::from_be_bytes
U16FromBeBytes(a) == a[1] * 256 + a[2]

\* u32::from_be_bytes.  A u32 is held as its two 16-bit halves, so that
\* every 32-bit value stays within the integers of the model checker.
U32FromBeBytes(a) == [hi |-> a[1] * 256 + a[2], lo |-> a[3] * 256 + a[4]]

\* Scanner::eat_u16_be
eat_u16_be(b, c) ==
    LET e == eat_bytes(b, c, 2)
    IN  IF IsSome(e.ret)
        THEN [ret |-> Some(U16FromBeBytes(Unwrap(e.ret))), cursor |-> e.cursor]
        ELSE [ret |-> None, cursor |-> e.cursor]

\* Scanner::eat_u32_be
eat_u32_be(b, c) ==
    LET e == eat_bytes(b, c, 4)
    IN  IF IsSome(e.ret)
        THEN [ret |-> Some(U32FromBeBytes(Unwrap(e.ret))), cursor |-> e.cursor]
        ELSE [ret |-> None, cursor |-> e.cursor]

\* The most bytes a variable-length quantity takes: `for _ in 0..4`.
VlqMaxBytes == 4

\* A loop that would go on to a fifth byte.
VlqLoopBoundFive == VlqMaxBytes + 1

\* The loop bound of eat_variable_length_quantity.
VlqLoopBound == VlqMaxBytes

\* An accumulation that shifts the value by 8 bits instead of 7.
VlqStepShift8(value, byte) == (U32Shl7(value) * 2) + (byte % 128)

\* A step that reads a continuation byte of payload zero, 0x80, as 0x81.
VlqStepZeroAsOne(value, byte) ==
    U32Shl7(value) + (IF byte = 128 THEN 1 ELSE byte % 128)

\* `value = (value << 7) | u32::from(byte & 0x7F)`: the shifted value has
\* its low 7 bits clear, so the bitwise or is a sum.
VlqStep(value, byte) == U32Shl7(value) + (byte % 128)

\* A test of the payload bits instead of the continuation bit.
VlqIsLastPayloadZero(byte) == byte % 128 = 0

\* `byte & 0x80 == 0`: the byte ends the quantity.
VlqIsLast(byte) == byte < 128

\* The body of eat_variable_length_quantity from its i-th iteration on.
RECURSIVE VlqLoop(_, _, _, _)
VlqLoop(b, c, value, i) ==
    IF i >= VlqLoopBound
    THEN [ret |-> None, cursor |-> c]
    ELSE LET e == eat(b, c)
         IN  IF ~IsSome(e.ret)
             THEN [ret |-> None, cursor |-> e.cursor]
             ELSE LET byte == Unwrap(e.ret)
                      v == VlqStep(value, byte)
                  IN  IF VlqIsLast(byte)
                      THEN [ret |-> Some(v), cursor |-> e.cursor]
                      ELSE VlqLoop(b, e.cursor, v, i + 1)

\* A reader that puts the cursor back where it was when it fails.
EatVlqRestoring(b, c) ==
    IF IsSome(VlqLoop(b, c, 0, 0).ret)
    THEN VlqLoop(b, c, 0, 0)
    ELSE [ret |-> None, cursor |-> c]

\* Scanner::eat_variable_length_quantity
eat_variable_length_quantity(b, c) == VlqLoop(b, c, 0, 0)

\* Scanner::eat_data_bytes: consumes bytes below 0x80 up to the first byte
\* with the high bit set, or to the end of the slice.
RECURSIVE DataBytesEnd(_, _)
DataBytesEnd(b, c) ==
    IF c < Len(b) /\ b[c + 1] < 128 THEN DataBytesEnd(b, c + 1) ELSE c

eat_data_bytes(b, c) ==
    LET end_cursor == DataBytesEnd(b, c)
    IN  [ret |-> Some(SubSeq(b, c + 1, end_cursor)), cursor |-> end_cursor]

\* Scanner::eat_vec(n): the owned form of eat_slice the track decoders call.
eat_vec(b, c, n) == eat_slice(b, c, n)

----------------------------------------------------------------------------
(* What one iteration of a track decode loop comes to: an event pushed, a  *)
(* byte skipped, an error returned, or a panic.                            *)

NoEvent == [tag |-> "none"]

\* An iteration that emits its event and hands back the cursor it was
\* entered with at the start of the data.
EmitRewinds(ev, c, rs) ==
    [outcome |-> "event", error |-> "none", event |-> ev, cursor |-> 0,
     running_status |-> rs]

Emit(ev, c, rs) ==
    [outcome |-> "event", error |-> "none", event |-> ev, cursor |-> c,
     running_status |-> rs]

\* A skip that takes the byte behind the status byte with it.
SkipWithNextByte(c, rs) ==
    [outcome |-> "skip", error |-> "none", event |-> NoEvent,
     cursor |-> c + 1, running_status |-> rs]

Skip(c, rs) ==
    [outcome |-> "skip", error |-> "none", event |-> NoEvent, cursor |-> c,
     running_status |-> rs]

Fail(e) ==
    [outcome |-> "err", error |-> e, event |-> NoEvent, cursor |-> 0,
     running_status |-> None]

Panic ==
    [outcome |-> "panic", error |-> "none", event |-> NoEvent, cursor |-> 0,
     running_status |-> None]

\* What parsing an event's kind comes to.
KindOk(k, c) == [outcome |-> "ok", error |-> "none", kind |-> k, cursor |-> c]
KindErr(e) == [outcome |-> "err", error |-> e, kind |-> NoEvent, cursor |-> 0]
KindPanic == [outcome |-> "panic", error |-> "none", kind |-> NoEvent, cursor |-> 0]

----------------------------------------------------------------------------
(* core/chunk/track/mod.rs (description/chunk/track.rs is the same code).  *)

\* parse_midi_event: `match status & 0xF0 { 0xC0 | 0xD0 => 1, _ => 2 }`
MidiDataLen(status) == IF (status \div 16) \in {12, 13} THEN 1 ELSE 2

\* parse_midi_event
parse_midi_event(b, c, status) ==
    LET data == eat_vec(b, c, MidiDataLen(status))
    IN  IF ~IsSome(data.ret)
        THEN KindErr("InvalidData")
        ELSE KindOk([tag |-> "MIDI", status |-> status,
                     data |-> Unwrap(data.ret)], data.cursor)

\* parse_meta_event: `FF <type> <length> <bytes>`, past the FF.
parse_meta_event(b, c, dbg) ==
    LET status == eat(b, c)
    IN  IF ~IsSome(status.ret)
        THEN KindErr("InvalidStatusByte")
        ELSE IF dbg /\ ~(Unwrap(status.ret) < 128)
        THEN KindPanic
        ELSE LET length == eat_variable_length_quantity(b, status.cursor)
             IN  IF ~IsSome(length.ret)
                 THEN KindErr("InvalidVLQ")
                 ELSE LET data == eat_vec(b, length.cursor, Unwrap(length.ret))
                      IN  IF ~IsSome(data.ret)
                          THEN KindErr("InvalidData")
                          ELSE KindOk([tag |-> "Meta",
                                       status |-> Unwrap(status.ret),
                                       data |-> Unwrap(data.ret)], data.cursor)

\* parse_system_exclusive_event, past the F0 or F7.
parse_system_exclusive_event(b, c, kind) ==
    LET length == eat_variable_length_quantity(b, c)
    IN  IF ~IsSome(length.ret)
        THEN KindErr("InvalidVLQ")
        ELSE LET data == eat_vec(b, length.cursor, Unwrap(length.ret))
             IN  IF ~IsSome(data.ret)
                 THEN KindErr("InvalidData")
                 ELSE KindOk([tag |-> "SysEx", kind |-> kind,
                              data |-> Unwrap(data.ret)], data.cursor)

\* An end of parse_event that forgets the running status with every event.
CoreEventClearsStatus(delta_time, k, rs) ==
    IF k.outcome = "ok"
    THEN Emit([delta_time |-> delta_time, kind |-> k.kind], k.cursor, None)
    ELSE IF k.outcome = "err" THEN Fail(k.error) ELSE Panic

\* The end of parse_event: `Ok(TrackEvent { delta_time, kind })`, or the
\* error the `?` after the kind's parser returns.
CoreEvent(delta_time, k, rs) ==
    IF k.outcome = "ok"
    THEN Emit([delta_time |-> delta_time, kind |-> k.kind], k.cursor, rs)
    ELSE IF k.outcome = "err" THEN Fail(k.error) ELSE Panic

\* parse_event
parse_event(b, c, rs, dbg) ==
    LET delta_time == eat_variable_length_quantity(b, c)
    IN  IF ~IsSome(delta_time.ret)
        THEN Fail("InvalidVLQ")
        ELSE
        LET kind_byte == peek(b, delta_time.cursor)
            dt == Unwrap(delta_time.ret)
            eaten == eat(b, delta_time.cursor).cursor
        IN  IF ~IsSome(kind_byte)
            THEN Fail("InvalidStatusByte")
            ELSE IF Unwrap(kind_byte) = 255
            THEN CoreEvent(dt, parse_meta_event(b, eaten, dbg), None)
            ELSE IF Unwrap(kind_byte) = 240
            THEN CoreEvent(dt, parse_system_exclusive_event(b, eaten, "F0"), None)
            ELSE IF Unwrap(kind_byte) = 247
            THEN CoreEvent(dt, parse_system_exclusive_event(b, eaten, "F7"), None)
            ELSE IF Unwrap(kind_byte) >= 128
            THEN CoreEvent(dt, parse_midi_event(b, eaten, Unwrap(kind_byte)),
                           Some(Unwrap(kind_byte)))
            ELSE IF ~IsSome(rs)
            THEN Fail("InvalidRunningStatus")
            ELSE CoreEvent(dt, parse_midi_event(b, delta_time.cursor, Unwrap(rs)),
                           rs)

----------------------------------------------------------------------------
(* file/event/track.rs: one iteration of TrackEventsFile::try_from.        *)

TRACK_EVENT_DATA_7F_MAX_MIDI_RUNNING == 127
TRACK_EVENT_STATUS_EF_MAX_MIDI == 239
TRACK_EVENT_STATUS_F0_SOX == 240
TRACK_EVENT_STATUS_F7_EOX == 247
TRACK_EVENT_STATUS_FF_META == 255

\* The Midi arms: the data is whatever eat_data_bytes returns.
FileMidi(b, c, dt, status, rs) ==
    LET data == eat_data_bytes(b, c)
    IN  IF ~IsSome(data.ret)
        THEN Fail("CouldNotReadData")
        ELSE Emit([delta_time |-> dt,
                   event |-> [tag |-> "MIDI", status |-> status,
                              data |-> Unwrap(data.ret)]], data.cursor, rs)

\* A Meta arm that takes everything up to the end of the track for the
\* payload.
FileMetaToEnd(b, c, dt) ==
    LET kind == eat(b, c)
    IN  IF ~IsSome(kind.ret)
        THEN Fail("CouldNotReadStatus")
        ELSE LET length == eat_variable_length_quantity(b, kind.cursor)
             IN  IF ~IsSome(length.ret)
                 THEN Fail("CouldNotReadVLQ")
                 ELSE Emit([delta_time |-> dt,
                            event |-> [tag |-> "Meta",
                                       status |-> 255,
                                       kind |-> Unwrap(kind.ret),
                                       length |-> Unwrap(length.ret),
                                       data |-> SubSeq(b, length.cursor + 1,
                                                       Len(b))]],
                           Len(b), None)

\* The Meta arm, past the FF.
FileMeta(b, c, dt) ==
    LET kind == eat(b, c)
    IN  IF ~IsSome(kind.ret)
        THEN Fail("CouldNotReadStatus")
        ELSE LET length == eat_variable_length_quantity(b, kind.cursor)
             IN  IF ~IsSome(length.ret)
                 THEN Fail("CouldNotReadVLQ")
                 ELSE LET data == eat_slice(b, length.cursor, Unwrap(length.ret))
                      IN  IF ~IsSome(data.ret)
                          THEN Fail("CouldNotReadData")
                          ELSE Emit([delta_time |-> dt,
                                     event |-> [tag |-> "Meta",
                                                status |-> TRACK_EVENT_STATUS_FF_META,
                                                kind |-> Unwrap(kind.ret),
                                                length |-> Unwrap(length.ret),
                                                data |-> Unwrap(data.ret)]],
                                    data.cursor, None)

\* The SysEx arms, past the F0 or F7.
FileSysEx(b, c, dt, status) ==
    LET length == eat_variable_length_quantity(b, c)
    IN  IF ~IsSome(length.ret)
        THEN Fail("CouldNotReadVLQ")
        ELSE LET data == eat_slice(b, length.cursor, Unwrap(length.ret))
             IN  IF ~IsSome(data.ret)
                 THEN Fail("CouldNotReadData")
                 ELSE Emit([delta_time |-> dt,
                            event |-> [tag |-> "SysEx", status |-> status,
                                       length |-> Unwrap(length.ret),
                                       data |-> Unwrap(data.ret)]],
                           data.cursor, None)

\* The body of the `while !scanner.done()` loop.
TrackEventsFileStep(b, c, rs) ==
    LET delta_time == eat_variable_length_quantity(b, c)
    IN  IF ~IsSome(delta_time.ret)
        THEN Fail("CouldNotReadVLQ")
        ELSE
        LET peeked == peek(b, delta_time.cursor)
            dt == Unwrap(delta_time.ret)
            eaten == eat(b, delta_time.cursor).cursor
        IN  IF ~IsSome(peeked)
            THEN Fail("CouldNotReadStatus")
            ELSE
            LET status_byte == Unwrap(peeked)
            IN  IF status_byte <= TRACK_EVENT_DATA_7F_MAX_MIDI_RUNNING
                THEN IF ~IsSome(rs)
                     THEN Fail("RunningStatusNotSet")
                     ELSE FileMidi(b, delta_time.cursor, dt, Unwrap(rs), rs)
                ELSE IF status_byte <= TRACK_EVENT_STATUS_EF_MAX_MIDI
                THEN FileMidi(b, eaten, dt, status_byte, Some(status_byte))
                ELSE IF status_byte = TRACK_EVENT_STATUS_FF_META
                THEN FileMeta(b, eaten, dt)
                ELSE IF status_byte = TRACK_EVENT_STATUS_F0_SOX
                THEN FileSysEx(b, eaten, dt, TRACK_EVENT_STATUS_F0_SOX)
                ELSE IF status_byte = TRACK_EVENT_STATUS_F7_EOX
                THEN FileSysEx(b, eaten, dt, TRACK_EVENT_STATUS_F7_EOX)
                ELSE Skip(eaten, None)

----------------------------------------------------------------------------
(* description/track.rs: one iteration of TrackChunk::try_from, which      *)
(* indexes chunk.data itself; an index or a range past the end panics.     *)

\* The `loop` that reads a variable-length quantity from index i on.
RECURSIVE DescVlq(_, _, _)
DescVlq(b, i, value) ==
    IF i >= Len(b)
    THEN [panic |-> TRUE, value |-> 0, i |-> i]
    ELSE LET byte == b[i + 1]
             v == U32Shl7(value) + (byte % 128)
         IN  IF byte < 128
             THEN [panic |-> FALSE, value |-> v, i |-> i + 1]
             ELSE DescVlq(b, i + 1, v)

\* `&chunk.data[i..i + n]`
DescRange(b, i, n) ==
    IF i + n > Len(b)
    THEN [panic |-> TRUE, data |-> <<>>, i |-> i]
    ELSE [panic |-> FALSE, data |-> SubSeq(b, i + 1, i + n), i |-> i + n]

\* The 0xFF arm, from the FF at index i: running_status is left as it is.
DescMeta(b, i, dt, rs, dbg) ==
    IF i + 1 >= Len(b)
    THEN Panic
    ELSE
    LET meta_type == b[i + 2]
    IN  IF dbg /\ ~(meta_type < 128)
        THEN Panic
        ELSE
        LET length == DescVlq(b, i + 2, 0)
        IN  IF length.panic
            THEN Panic
            ELSE LET data == DescRange(b, length.i, length.value)
                 IN  IF data.panic
                     THEN Panic
                     ELSE Emit([delta_time |-> dt,
                                event |-> [tag |-> "Meta", kind |-> meta_type,
                                           data |-> data.data]], data.i, rs)

\* The 0xF0 | 0xF7 arm, from the status byte at index i.
DescSysEx(b, i, dt) ==
    LET length == DescVlq(b, i + 1, 0)
    IN  IF length.panic
        THEN Panic
        ELSE LET data == DescRange(b, length.i, length.value)
             IN  IF data.panic
                 THEN Panic
                 ELSE Emit([delta_time |-> dt,
                            event |-> [tag |-> "SysEx", data |-> data.data]],
                           data.i, None)

\* The two MIDI arms: the data begins at index i.
DescMidi(b, i, dt, status) ==
    LET data == DescRange(b, i, IF (status \div 16) \in {12, 13} THEN 1 ELSE 2)
    IN  IF data.panic
        THEN Panic
        ELSE Emit([delta_time |-> dt,
                   event |-> [tag |-> "MIDI", status |-> status,
                              data |-> data.data]], data.i, Some(status))

\* The body of the `while i < chunk.data.len()` loop.
DescriptionStep(b, i, rs, dbg) ==
    LET delta_time == DescVlq(b, i, 0)
    IN  IF delta_time.panic \/ delta_time.i >= Len(b)
        THEN Panic
        ELSE
        LET status == b[delta_time.i + 1]
            dt == delta_time.value
        IN  IF status = 255
            THEN DescMeta(b, delta_time.i, dt, rs, dbg)
            ELSE IF status \in {240, 247}
            THEN DescSysEx(b, delta_time.i, dt)
            ELSE IF status >= 128
            THEN DescMidi(b, delta_time.i + 1, dt, status)
            ELSE IF ~IsSome(rs)
            THEN Fail("MalformedRunningStatus")
            ELSE DescMidi(b, delta_time.i, dt, Unwrap(rs))

----------------------------------------------------------------------------
(* Raw chunks and their kinds (chunk/kind.rs, file/chunk/header.rs,        *)
(* file/chunk/track.rs).                                                   *)

\* b"MThd"
HEADER_CHUNK_KIND == <<77, 84, 104, 100>>

\* b"MTrk"
TRACK_CHUNK_KIND == <<77, 84, 114, 107>>

\* HEADER_CHUNK_LENGTH
HEADER_CHUNK_LENGTH == 6

\* A classification by the first three bytes of the tag only.
ChunkKindFromThreeBytes(kind_bytes) ==
    IF SubSeq(kind_bytes, 1, 3) = <<77, 84, 104>>
    THEN [variant |-> "Header", bytes |-> kind_bytes]
    ELSE IF SubSeq(kind_bytes, 1, 3) = <<77, 84, 114>>
    THEN [variant |-> "Track", bytes |-> kind_bytes]
    ELSE [variant |-> "Alien", bytes |-> kind_bytes]

\* ChunkKind::from([u8; 4]): the variant, wrapping the four bytes unchanged.
ChunkKindFrom(kind_bytes) ==
    IF kind_bytes = HEADER_CHUNK_KIND
    THEN [variant |-> "Header", bytes |-> kind_bytes]
    ELSE IF kind_bytes = TRACK_CHUNK_KIND
    THEN [variant |-> "Track", bytes |-> kind_bytes]
    ELSE [variant |-> "Alien", bytes |-> kind_bytes]

\* <[u8; 4]>::from(ChunkKind)
ChunkKindBytes(kind) == kind.bytes

\* A u32 that holds the natural n < 65536.
U32Of(n) == [hi |-> 0, lo |-> n]

\* `length as usize` compared with a count of bytes of the (bounded)
\* buffers of the model: whether the u32 equals, or exceeds, the count n.
U32Equals(u, n) == u.hi = 0 /\ u.lo = n
U32Exceeds(u, n) == u.hi > 0 \/ u.lo > n

\* `a + length as usize` in usize arithmetic, for a < 65536: the sum as a
\* low 16-bit half and what lies above it, and whether it overflows a usize
\* of the given width; an overflowing sum wraps around 2^32.
UsizeAddU32(a, length, width) ==
    LET lo == a + length.lo
        hi == length.hi + (lo \div 65536)
    IN  [overflow |-> (width = 32 /\ hi >= 65536),
         hi |-> IF width = 32 THEN hi % 65536 ELSE hi,
         lo |-> lo % 65536]

\* A take of the data that runs to the end of the buffer whatever the
\* length.
EatSliceToEnd(b, c, length) ==
    [ret |-> Some(SubSeq(b, c + 1, Len(b))), cursor |-> Len(b)]

\* scanner.eat_slice(length as usize): a length of 65536 or more exceeds
\* every buffer of the model, so either checked_add or the comparison with
\* bytes.len() makes eat_slice return None.
eat_slice_u32(b, c, length) ==
    IF length.hi > 0
    THEN [ret |-> None, cursor |-> c]
    ELSE eat_slice(b, c, length.lo)

\* Scanner::eat_array::<N>: the array-returning take the chunk splitter and
\* the description header decoder call.
eat_array(b, c, N) == eat_slice(b, c, N)

----------------------------------------------------------------------------
(* The header decoders.  Each returns Ok with a header, an error, or       *)
(* panics.                                                                 *)

HeaderOk(h) == [outcome |-> "Ok", error |-> "none", header |-> h]
HeaderErr(e) == [outcome |-> "Err", error |-> e, header |-> NoEvent]
HeaderPanic == [outcome |-> "panic", error |-> "none", header |-> NoEvent]

\* A format decoder that looks at the low byte alone.
FormatOfLowByte(a) ==
    IF a[2] = 0 THEN Some("SingleMultiChannelTrack")
    ELSE IF a[2] = 1 THEN Some("SimultaneousTracks")
    ELSE IF a[2] = 2
    THEN Some("SequentiallyIndependentSingleTrackPatterns")
    ELSE None

\* core/chunk/header/format.rs, Format::try_from(&[u8; 2]); None is
\* Err(UnknownFormatBytes).
FormatTryFrom(a) ==
    IF a = <<0, 0>> THEN Some("SingleMultiChannelTrack")
    ELSE IF a = <<0, 1>> THEN Some("SimultaneousTracks")
    ELSE IF a = <<0, 2>>
    THEN Some("SequentiallyIndependentSingleTrackPatterns")
    ELSE None

\* midi/format.rs, MIDIFormat::try_from([u8; 2]); None is
\* Err(UnknownFormatBytes).
MIDIFormatTryFrom(b) ==
    IF b = <<0, 0>> THEN Some("SingleMultiChannelTrack")
    ELSE IF b = <<0, 1>> THEN Some("SimultaneousTracks")
    ELSE IF b = <<0, 2>>
    THEN Some("SequentiallyIndependentSingleTrackPatterns")
    ELSE None

\* A frame-rate decoder that takes 226 for 30-drop and 227 for 30.
FPSOfSwappedThirty(value) ==
    IF value = 232 THEN Some("FPS24")
    ELSE IF value = 231 THEN Some("FPS25")
    ELSE IF value = 226 THEN Some("FPS30Drop")
    ELSE IF value = 227 THEN Some("FPS30")
    ELSE None

\* FPS::try_from(u8): `match value as i8`, -24, -25, -29 and -30 being the
\* bytes 232, 231, 227 and 226.
FPSTryFrom(value) ==
    IF value = 232 THEN Some("FPS24")
    ELSE IF value = 231 THEN Some("FPS25")
    ELSE IF value = 227 THEN Some("FPS30Drop")
    ELSE IF value = 226 THEN Some("FPS30")
    ELSE None

\* description/chunk/header/division/mod.rs, Division::try_from([u8; 2]);
\* None is Err(InvalidFPS).
DivisionTryFrom(a) ==
    LET high == a[1]
        low == a[2]
    IN  IF high < 128
        THEN Some([tag |-> "TicksPerQuarterNote", ticks |-> U16FromBeBytes(a)])
        ELSE IF IsSome(FPSTryFrom(high))
        THEN Some([tag |-> "TimeCode",
                   frames_per_second |-> Unwrap(FPSTryFrom(high)),
                   ticks_per_frame |-> low])
        ELSE None

\* chunk/header.rs and description/header.rs, Division::try_from([u8; 2]),
\* which match `high as i8` themselves; None is Err(InvalidFPS).
HeaderDivisionTryFrom(value) ==
    LET high == value[1]
        low == value[2]
    IN  IF high < 128
        THEN Some([tag |-> "TicksPerQuarterNote",
                   ticks |-> U16FromBeBytes(value)])
        ELSE IF high = 232
        THEN Some([tag |-> "TimeCode", frames_per_second |-> "FPS24",
                   ticks_per_frame |-> low])
        ELSE IF high = 231
        THEN Some([tag |-> "TimeCode", frames_per_second |-> "FPS25",
                   ticks_per_frame |-> low])
        ELSE IF high = 227
        THEN Some([tag |-> "TimeCode", frames_per_second |-> "FPS30Drop",
                   ticks_per_frame |-> low])
        ELSE IF high = 226
        THEN Some([tag |-> "TimeCode", frames_per_second |-> "FPS30",
                   ticks_per_frame |-> low])
        ELSE None

Header(format, tracks_count, division) ==
    [format |-> format, tracks_count |-> tracks_count, division |-> division]

\* chunk/header.rs, HeaderChunk::try_from(&Chunk): the fields are sliced
\* out of chunk.data by index, which panics when the data is shorter.
ChunkHeaderTryFrom(chunk) ==
    LET data == chunk.data
    IN  IF chunk.kind.variant # "Header" THEN HeaderErr("InvalidChunkKind")
        ELSE IF Len(data) < 2 THEN HeaderPanic
        ELSE IF ~IsSome(MIDIFormatTryFrom(SubSeq(data, 1, 2)))
        THEN HeaderErr("MalformedMIDIFormat")
        ELSE IF Len(data) < 4 THEN HeaderPanic
        ELSE IF Len(data) < 6 THEN HeaderPanic
        ELSE IF ~IsSome(HeaderDivisionTryFrom(SubSeq(data, 5, 6)))
        THEN HeaderErr("MalformedDivision")
        ELSE HeaderOk(Header(Unwrap(MIDIFormatTryFrom(SubSeq(data, 1, 2))),
                             U16FromBeBytes(SubSeq(data, 3, 4)),
                             Unwrap(HeaderDivisionTryFrom(SubSeq(data, 5, 6)))))

\* description/header.rs, HeaderChunk::try_from(&Chunk): the fields are
\* read with a Scanner over chunk.data.
DescriptionHeaderTryFrom(chunk) ==
    LET data == chunk.data
        format_bytes == eat_array(data, 0, 2)
        tracks_count == eat_u16_be(data, format_bytes.cursor)
        division_bytes == eat_array(data, tracks_count.cursor, 2)
    IN  IF chunk.kind.variant # "Header" THEN HeaderErr("InvalidChunkKind")
        ELSE IF ~IsSome(format_bytes.ret) THEN HeaderErr("MalformedMIDIFormat")
        ELSE IF ~IsSome(MIDIFormatTryFrom(Unwrap(format_bytes.ret)))
        THEN HeaderErr("MalformedMIDIFormat")
        ELSE IF ~IsSome(tracks_count.ret)
        THEN HeaderErr("MalformedTracksCount")
        ELSE IF /\ Unwrap(MIDIFormatTryFrom(Unwrap(format_bytes.ret)))
                     = "SingleMultiChannelTrack"
                /\ Unwrap(tracks_count.ret) # 1
        THEN HeaderErr("MalformedTracksCount")
        ELSE IF ~IsSome(division_bytes.ret) THEN HeaderErr("MalformedDivision")
        ELSE IF ~IsSome(HeaderDivisionTryFrom(Unwrap(division_bytes.ret)))
        THEN HeaderErr("MalformedDivision")
        ELSE HeaderOk(Header(Unwrap(MIDIFormatTryFrom(Unwrap(format_bytes.ret))),
                             Unwrap(tracks_count.ret),
                             Unwrap(HeaderDivisionTryFrom(Unwrap(division_bytes.ret)))))

\* file/chunk/header.rs, HeaderChunkFile::try_from(&ChunkFile): the three
\* fields as byte pairs, of a chunk whose length is exactly 6.
HeaderChunkFileTryFrom(chunk) ==
    LET data == chunk.data
        format == eat_bytes(data, 0, 2)
        tracks_count == eat_bytes(data, format.cursor, 2)
        division == eat_bytes(data, tracks_count.cursor, 2)
    IN  IF chunk.kind # HEADER_CHUNK_KIND THEN HeaderErr("InvalidKind")
        ELSE IF ~U32Equals(chunk.length, HEADER_CHUNK_LENGTH)
        THEN HeaderErr("InvalidLength")
        ELSE IF ~IsSome(format.ret) THEN HeaderErr("CouldNotReadFormat")
        ELSE IF ~IsSome(tracks_count.ret)
        THEN HeaderErr("CouldNotReadTrackCount")
        ELSE IF ~IsSome(division.ret) THEN HeaderErr("CouldNotReadDivision")
        ELSE IF ~done(data, division.cursor) THEN HeaderErr("ScannerNotDone")
        ELSE HeaderOk(Header(Unwrap(format.ret), Unwrap(tracks_count.ret),
                             Unwrap(division.ret)))

\* core/chunk/header/mod.rs, HeaderChunk::try_from(&HeaderChunkFile)
CoreHeaderTryFrom(file) ==
    LET format == FormatTryFrom(file.format)
        tracks_count == U16FromBeBytes(file.tracks_count)
        division == DivisionTryFrom(file.division)
    IN  IF ~IsSome(format) THEN HeaderErr("InvalidFormat")
        ELSE IF ~IsSome(division) THEN HeaderErr("InvalidDivision")
        ELSE IF Unwrap(format) = "SingleMultiChannelTrack" /\ tracks_count # 1
        THEN HeaderErr("InvalidTracksCount")
        ELSE HeaderOk(Header(Unwrap(format), tracks_count, Unwrap(division)))

----------------------------------------------------------------------------
(* The scanner runs: a Scanner over a slice, driven by any sequence of its *)
(* methods.                                                                *)

\* The byte values the scanner runs draw slices from: data bytes, and
\* bytes with the continuation bit set.
ScanBytes == {0, 127, 128, 129, 255}

SeqsUpTo(S, n) == UNION {[1..k -> S] : k \in 0..n}

ScanSlices == SeqsUpTo(ScanBytes, MaxScanLen)

\* No chunk splitter runs: nothing depends on the width of usize.
BuildIdle ==
    /\ target_pointer_width = 64
    /\ files = <<>>

\* The track-decoder variables, unused while only the Scanner runs.
TrackIdle ==
    /\ decoder = "none"
    /\ debug_assertions = FALSE
    /\ tracks = <<>>
    /\ ti = 0
    /\ running_status = None
    /\ events = <<>>
    /\ result = "idle"
    /\ error = "none"
    /\ chunks = <<>>
    /\ BuildIdle

\* Scanner::new
InitScanner ==
    /\ bytes \in ScanSlices
    /\ cursor = 0
    /\ op = "new"
    /\ ret = None
    /\ arg = 0
    /\ TrackIdle

Peek ==
    /\ op' = "peek"
    /\ arg' = 0
    /\ ret' = peek(bytes, cursor)
    /\ UNCHANGED <<bytes, cursor>>
    /\ UNCHANGED trackVars

Eat ==
    /\ op' = "eat"
    /\ arg' = 0
    /\ ret' = eat(bytes, cursor).ret
    /\ cursor' = eat(bytes, cursor).cursor
    /\ UNCHANGED bytes
    /\ UNCHANGED trackVars

EatSlice ==
    \E n \in 0..(MaxScanLen + 1) :
        /\ op' = "eat_slice"
        /\ arg' = n
        /\ ret' = eat_slice(bytes, cursor, n).ret
        /\ cursor' = eat_slice(bytes, cursor, n).cursor
        /\ UNCHANGED bytes
        /\ UNCHANGED trackVars

EatVariableLengthQuantity ==
    /\ op' = "eat_variable_length_quantity"
    /\ arg' = 0
    /\ ret' = eat_variable_length_quantity(bytes, cursor).ret
    /\ cursor' = eat_variable_length_quantity(bytes, cursor).cursor
    /\ UNCHANGED bytes
    /\ UNCHANGED trackVars

EatDataBytes ==
    /\ op' = "eat_data_bytes"
    /\ arg' = 0
    /\ ret' = eat_data_bytes(bytes, cursor).ret
    /\ cursor' = eat_data_bytes(bytes, cursor).cursor
    /\ UNCHANGED bytes
    /\ UNCHANGED trackVars

\* The array sizes the crate instantiates eat_bytes with.
ArraySizes == {2, 4}

EatBytes ==
    \E N \in ArraySizes :
        /\ op' = "eat_bytes"
        /\ arg' = N
        /\ ret' = eat_bytes(bytes, cursor, N).ret
        /\ cursor' = eat_bytes(bytes, cursor, N).cursor
        /\ UNCHANGED bytes
        /\ UNCHANGED trackVars

EatU16Be ==
    /\ op' = "eat_u16_be"
    /\ arg' = 0
    /\ ret' = eat_u16_be(bytes, cursor).ret
    /\ cursor' = eat_u16_be(bytes, cursor).cursor
    /\ UNCHANGED bytes
    /\ UNCHANGED trackVars

EatU32Be ==
    /\ op' = "eat_u32_be"
    /\ arg' = 0
    /\ ret' = eat_u32_be(bytes, cursor).ret
    /\ cursor' = eat_u32_be(bytes, cursor).cursor
    /\ UNCHANGED bytes
    /\ UNCHANGED trackVars

NextScanner ==
    \/ Peek
    \/ Eat
    \/ EatSlice
    \/ EatBytes
    \/ EatU16Be
    \/ EatU32Be
    \/ EatVariableLengthQuantity
    \/ EatDataBytes

SpecScanner == InitScanner /\ [][NextScanner]_vars

----------------------------------------------------------------------------
(* Variable-length quantities as the format defines them, stated without   *)
(* the decoding loop.                                                      *)

VlqOp == "eat_variable_length_quantity"

\* How many bytes remain behind cursor c.
Remaining(b, c) == Len(b) - c

\* The 1-based place, among the first four bytes behind the cursor, of the
\* first byte with its high bit clear; 0 when there is none.
FirstClear(b, c) ==
    LET ks == {k \in 1..4 : k <= Remaining(b, c) /\ b[c + k] < 128}
    IN  IF ks = {} THEN 0 ELSE CHOOSE k \in ks : \A j \in ks : k <= j

\* The big-endian concatenation of the low 7 bits of the k bytes behind c.
RECURSIVE Concat7(_, _, _)
Concat7(b, c, k) ==
    IF k = 0 THEN 0 ELSE Concat7(b, c, k - 1) * 128 + (b[c + k] % 128)

\* The canonical encoding of v < 2^28: 7 bits per byte, most significant
\* group first, the high bit set on every byte but the last, no leading
\* zero group.
VlqEncode(v) ==
    IF v < 128 THEN <<v>>
    ELSE IF v < 16384 THEN <<128 + (v \div 128), v % 128>>
    ELSE IF v < 2097152
         THEN <<128 + (v \div 16384), 128 + ((v \div 128) % 128), v % 128>>
         ELSE <<128 + (v \div 2097152), 128 + ((v \div 16384) % 128),
                128 + ((v \div 128) % 128), v % 128>>

\* The value of a sequence of 7-bit groups, most significant first.
RECURSIVE GroupsValue(_)
GroupsValue(g) ==
    IF g = <<>> THEN 0
    ELSE GroupsValue(SubSeq(g, 1, Len(g) - 1)) * 128 + g[Len(g)]

\* The values the round trip is tried on: every value of one to four groups
\* drawn from the payloads of ScanBytes, 0 and 0x0FFFFFFF among them.
VlqValues ==
    {GroupsValue(g) : g \in UNION {[1..k -> {0, 1, 127}] : k \in 1..VlqMaxBytes}}

\* Whether p is a prefix of what remains of b behind cursor c.
StartsWith(b, c, p) ==
    /\ Len(p) <= Remaining(b, c)
    /\ SubSeq(b, c + 1, c + Len(p)) = p

\* C8: when one of the first four bytes behind the cursor has its high bit
\* clear, eat_variable_length_quantity returns the big-endian concatenation
\* of the low 7 bits of the bytes up to and including the first such byte
\* and advances the cursor by exactly that many bytes.
C8_VlqDecodes ==
    [][ (op' = VlqOp /\ FirstClear(bytes, cursor) > 0)
        => /\ ret' = Some(Concat7(bytes, cursor, FirstClear(bytes, cursor)))
           /\ cursor' = cursor + FirstClear(bytes, cursor)
           /\ bytes' = bytes ]_vars

\* C8 witness: the four-byte quantity FF FF FF 7F was decoded from the start
\* of a five-byte slice, and the fifth byte is still unconsumed.
C8_Witness ==
    /\ bytes = <<255, 255, 255, 127, 255>>
    /\ op = VlqOp
    /\ ret = Some(268435455)
    /\ cursor = 4

\* C9: for every value v, decoding a slice that continues with the canonical
\* encoding of v returns v and consumes exactly the encoded bytes.
C9_VlqRoundTrip ==
    [][ op' = VlqOp
        => \A v \in VlqValues :
              StartsWith(bytes, cursor, VlqEncode(v))
              => /\ ret' = Some(v)
                 /\ cursor' = cursor + Len(VlqEncode(v)) ]_vars

\* C9 witness: the slice is the encoding 81 80 00 of 0x4000, decoded whole.
C9_Witness ==
    /\ bytes = VlqEncode(16384)
    /\ bytes = <<129, 128, 0>>
    /\ op = VlqOp
    /\ ret = Some(16384)
    /\ cursor = 3

\* Whether every one of the first n bytes behind the cursor has the
\* continuation bit set.
AllContinue(b, c, n) == \A k \in 1..n : b[c + k] >= 128

\* C10: eat_variable_length_quantity reports failure when the first four
\* bytes all have the continuation bit set, and when the input is empty or
\* ends while the last byte read still has the continuation bit set; it
\* never reads a fifth byte.
C10_VlqMalformed ==
    [][ op' = VlqOp
        => /\ (/\ Remaining(bytes, cursor) >= 4
               /\ AllContinue(bytes, cursor, 4)) => ret' = None
           /\ (/\ Remaining(bytes, cursor) < 4
               /\ AllContinue(bytes, cursor, Remaining(bytes, cursor)))
              => ret' = None
           /\ cursor' <= cursor + 4 ]_vars

\* C10 witness: four continuation bytes were read from the start of a
\* five-byte slice, the read failed, and the fifth byte was not read.
C10_Witness ==
    /\ bytes = <<255, 255, 255, 255, 255>>
    /\ op = VlqOp
    /\ ret = None
    /\ cursor = 4

\* C11: after any sequence of Scanner operations, successful or not, on a
\* slice of any length, 0 <= cursor <= slice length, and no operation ever
\* moves the cursor back (or touches the slice).
C11_CursorInvariant ==
    /\ cursor = 0
    /\ [][ /\ 0 <= cursor'
           /\ cursor' <= Len(bytes')
           /\ cursor' >= cursor
           /\ bytes' = bytes ]_vars

\* C11 witness: the cursor has reached the end of a five-byte slice and an
\* eat there failed without moving it.
C11_Witness ==
    /\ Len(bytes) = 5
    /\ cursor = 5
    /\ op = "eat"
    /\ ret = None

\* The operations that take exactly n bytes.
TakeOps == {"eat_slice", "eat_bytes"}

\* C12: eat_slice(n) (and eat_bytes::<n>), when at least n bytes remain,
\* returns exactly the next n bytes and advances the cursor by n; when fewer
\* than n remain it reports absence and leaves the cursor unchanged.
C12_TakeExactly ==
    [][ op' \in TakeOps
        => IF Remaining(bytes, cursor) >= arg'
           THEN /\ ret' = Some(SubSeq(bytes, cursor + 1, cursor + arg'))
                /\ Len(Unwrap(ret')) = arg'
                /\ cursor' = cursor + arg'
           ELSE /\ ret' = None
                /\ cursor' = cursor ]_vars

\* C12 witness: with three of five bytes consumed, an eat_slice(3) found
\* only two bytes left, reported absence and left the cursor at 3.
C12_Witness ==
    /\ Len(bytes) = 5
    /\ cursor = 3
    /\ op = "eat_slice"
    /\ arg = 3
    /\ ret = None

----------------------------------------------------------------------------
(* The track runs: the track chunks of a file are decoded one after the    *)
(* other, each by a call of its own of the track decoder.                  *)

Decoders == {"core", "file", "description"}

\* The pieces the modelled track data is put together from: single bytes
\* (a data byte 00 and 40, a continuation byte 81, the statuses C0, F0, F4
\* and FF), and whole events (a note-on, a two-byte running-status
\* continuation, an end-of-track meta event, an F7 SysEx with one byte).
Frags ==
    { <<0>>, <<64>>, <<129>>, <<192>>, <<240>>, <<244>>, <<255>>,
      <<0, 144, 64, 96>>, <<0, 64, 0>>, <<0, 255, 47, 0>>, <<0, 247, 1, 64>> }

\* Not a byte: the end of one track chunk's data and the start of the next.
TrackBreak == <<256>>

Items == Frags \cup {TrackBreak}

\* The track chunks the first k of the items make.
RECURSIVE SplitTracks(_, _)
SplitTracks(items, k) ==
    IF k = 0
    THEN << <<>> >>
    ELSE LET prev == SplitTracks(items, k - 1)
         IN  IF items[k] = TrackBreak
             THEN Append(prev, <<>>)
             ELSE [prev EXCEPT ![Len(prev)] = @ \o items[k]]

Files == {SplitTracks(s, Len(s)) : s \in SeqsUpTo(Items, MaxItems)}

\* The Scanner's method log, unused in the track runs.
ScannerLogIdle ==
    /\ op = "none"
    /\ ret = None
    /\ arg = 0

Init ==
    /\ decoder \in Decoders
    /\ debug_assertions \in BOOLEAN
    /\ tracks \in Files
    /\ ti = 0
    /\ bytes = <<>>
    /\ cursor = 0
    /\ running_status = None
    /\ events = <<>>
    /\ result = "idle"
    /\ error = "none"
    /\ chunks = <<>>
    /\ ScannerLogIdle
    /\ BuildIdle

\* A running status carried over from whatever was decoded before.
CarriedRunningStatus(previous) == previous

\* `let mut running_status: Option<u8> = None;`
InitialRunningStatus(previous) == None

\* The callers' loops over the chunks: MIDI::try_from returns at the first
\* chunk that fails; relocate's main reports a failed track and goes on.
MayStartNext ==
    \/ result \in {"idle", "Ok"}
    \/ result = "Err" /\ decoder = "description"

\* The entry of the track decoder for the next track chunk: a new Scanner,
\* an empty events vector, no running status.
StartTrack ==
    /\ MayStartNext
    /\ ti < Len(tracks)
    /\ ti' = ti + 1
    /\ bytes' = tracks[ti + 1]
    /\ cursor' = 0
    /\ running_status' = InitialRunningStatus(running_status)
    /\ events' = <<>>
    /\ result' = "running"
    /\ error' = "none"
    /\ UNCHANGED <<decoder, debug_assertions, tracks, chunks, op, ret, arg,
                   target_pointer_width, files>>

\* One iteration of the running decoder's loop.
Step ==
    IF decoder = "core"
    THEN parse_event(bytes, cursor, running_status, debug_assertions)
    ELSE IF decoder = "file"
    THEN TrackEventsFileStep(bytes, cursor, running_status)
    ELSE DescriptionStep(bytes, cursor, running_status, debug_assertions)

InLoop == result = "running" /\ ~done(bytes, cursor)

\* The events a decode that still holds some leaves behind when it fails.
EventsKeptOnFailure(evs) == evs

\* The `?` of a failed iteration returns the error alone: the events vector
\* is dropped.
EventsOnFailure(evs) == <<>>

\* `events.push(event)`
PushEvent ==
    /\ InLoop
    /\ Step.outcome = "event"
    /\ events' = Append(events, Step.event)
    /\ cursor' = Step.cursor
    /\ running_status' = Step.running_status
    /\ UNCHANGED <<decoder, debug_assertions, tracks, ti, bytes, result, error,
                   chunks, op, ret, arg, target_pointer_width, files>>

\* The `continue` of the arm for F1..F6 and F8..FE in file/event/track.rs.
SkipStatus ==
    /\ InLoop
    /\ Step.outcome = "skip"
    /\ cursor' = Step.cursor
    /\ running_status' = Step.running_status
    /\ UNCHANGED <<decoder, debug_assertions, tracks, ti, bytes, events,
                   result, error, chunks, op, ret, arg, target_pointer_width, files>>

\* An `ok_or(..)?` of the iteration returns its error from try_from.
FailTrack ==
    /\ InLoop
    /\ Step.outcome = "err"
    /\ result' = "Err"
    /\ error' = Step.error
    /\ events' = EventsOnFailure(events)
    /\ chunks' = IF decoder = "description" THEN chunks ELSE <<>>
    /\ UNCHANGED <<decoder, debug_assertions, tracks, ti, bytes, cursor,
                   running_status, op, ret, arg, target_pointer_width,
                   files>>

\* An index past the end, or a failed debug_assert!, unwinds.
PanicTrack ==
    /\ InLoop
    /\ Step.outcome = "panic"
    /\ result' = "panic"
    /\ events' = EventsOnFailure(events)
    /\ chunks' = <<>>
    /\ UNCHANGED <<decoder, debug_assertions, tracks, ti, bytes, cursor,
                   running_status, error, op, ret, arg, target_pointer_width, files>>

\* The loop ends with the data consumed: `Ok(TrackChunk(events))`, which
\* MIDI::try_from pushes onto its chunks.
FinishTrack ==
    /\ result = "running"
    /\ done(bytes, cursor)
    /\ result' = "Ok"
    /\ chunks' = IF decoder = "description" THEN chunks ELSE Append(chunks, events)
    /\ UNCHANGED <<decoder, debug_assertions, tracks, ti, bytes, cursor,
                   running_status, events, error, op, ret, arg,
                   target_pointer_width, files>>

Next ==
    \/ StartTrack
    \/ PushEvent
    \/ SkipStatus
    \/ FailTrack
    \/ PanicTrack
    \/ FinishTrack

Spec == Init /\ [][Next]_vars

----------------------------------------------------------------------------
(* The track format as the specification states it, read off the data at   *)
(* the start of an iteration, whichever decoder runs.                      *)

\* The delta-time that begins at the cursor.
Delta == eat_variable_length_quantity(bytes, cursor)

\* A delta-time was read and a byte follows it, at the status position.
HasStatusByte == IsSome(Delta.ret) /\ Delta.cursor < Len(bytes)

\* The byte at the status position.
StatusByte == bytes[Delta.cursor + 1]

\* An explicit channel-voice status byte.
ChannelVoice == 128..239

\* The data length rule: 1 byte for status nibbles C and D, else 2.
ChannelVoiceLen(status) == IF (status \div 16) \in {12, 13} THEN 1 ELSE 2

\* The names the decoders give the error kinds.
RunningStatusError ==
    {"InvalidRunningStatus", "RunningStatusNotSet", "MalformedRunningStatus"}
InvalidStatusError == {"InvalidStatusByte"}
DataTruncationError == {"InvalidData", "CouldNotReadData"}

\* The enum a track event wraps: `kind` in core, `event` in file and
\* description.
Body(ev) == IF "kind" \in DOMAIN ev THEN ev.kind ELSE ev.event

LastEvent == events[Len(events)]

\* The step pushes one event, the channel-voice event of this status and
\* data.
PushesMidi(status, data) ==
    /\ Len(events') = Len(events) + 1
    /\ SubSeq(events', 1, Len(events)) = events
    /\ Body(events'[Len(events')]).tag = "MIDI"
    /\ Body(events'[Len(events')]).status = status
    /\ Body(events'[Len(events')]).data = data

\* The step makes the decode return an error of one of these kinds.
FailsWith(kinds) == result' = "Err" /\ error' \in kinds

\* An explicit channel-voice event begins at the cursor and is followed by a
\* delta-time, a byte below 0x80 and enough bytes for a second event.
ExplicitThenContinuation ==
    /\ InLoop
    /\ HasStatusByte
    /\ StatusByte \in ChannelVoice
    /\ LET n == ChannelVoiceLen(StatusByte)
           after == Delta.cursor + 1 + n
       IN  /\ after < Len(bytes)
           /\ LET d2 == eat_variable_length_quantity(bytes, after)
              IN  /\ IsSome(d2.ret)
                  /\ d2.cursor < Len(bytes)
                  /\ bytes[d2.cursor + 1] < 128
                  /\ d2.cursor + n <= Len(bytes)

\* The event pushed last had an explicit channel-voice status, its data
\* ends at the cursor, and a delta-time, a byte below 0x80 and enough data
\* bytes follow.
ContinuationAfterExplicit ==
    /\ InLoop
    /\ Len(events) >= 1
    /\ Body(LastEvent).tag = "MIDI"
    /\ Body(LastEvent).status \in ChannelVoice
    /\ cursor - Len(Body(LastEvent).data) >= 1
    /\ bytes[cursor - Len(Body(LastEvent).data)] = Body(LastEvent).status
    /\ HasStatusByte
    /\ StatusByte < 128
    /\ Delta.cursor + ChannelVoiceLen(Body(LastEvent).status) <= Len(bytes)

\* C1: when a channel-voice event with explicit status S is immediately
\* followed by a delta-time and then a byte below 0x80, the decoder emits
\* two separate events that both carry status S: the first with the data
\* bytes of S and leaving S as the running status, the second taking its
\* data bytes from the unconsumed byte on.
C1_RunningStatusPair ==
    [][ /\ ExplicitThenContinuation
           => LET n == ChannelVoiceLen(StatusByte)
                  p == Delta.cursor + 1
              IN  /\ PushesMidi(StatusByte, SubSeq(bytes, p + 1, p + n))
                  /\ cursor' = p + n
                  /\ running_status' = Some(StatusByte)
        /\ ContinuationAfterExplicit
           => LET S == Body(LastEvent).status
                  n == ChannelVoiceLen(S)
              IN  /\ PushesMidi(S, SubSeq(bytes, Delta.cursor + 1,
                                          Delta.cursor + n))
                  /\ cursor' = Delta.cursor + n ]_vars

\* C2: after any Meta or System Exclusive event the running status is
\* absent, so a following event that begins with a byte below 0x80 makes
\* the track decode fail with the running-status error.
C2_ResetAfterMetaOrSysEx ==
    [][ (/\ result = "running"
         /\ Len(events) >= 1
         /\ Body(LastEvent).tag \in {"Meta", "SysEx"})
        => /\ running_status = None
           /\ (InLoop /\ HasStatusByte /\ StatusByte < 128)
              => FailsWith(RunningStatusError) ]_vars

\* C3: running status is absent at the start of the decode of every track
\* chunk, whatever the preceding chunks contained: a track whose first
\* event begins with a byte below 0x80 fails with the running-status error.
C3_FreshRunningStatus ==
    [][ (result = "running" /\ cursor = 0)
        => /\ running_status = None
           /\ (InLoop /\ HasStatusByte /\ StatusByte < 128)
              => FailsWith(RunningStatusError) ]_vars

\* C3 witness: the first track chunk held a note-on and so ended with a
\* running status set; the second began with a data byte and failed with
\* the running-status error.
C3_Witness ==
    /\ ti = 2
    /\ tracks[1] = <<0, 144, 64, 96>>
    /\ Len(bytes) >= 2
    /\ cursor = 0
    /\ result = "Err"
    /\ error \in RunningStatusError

\* The System Common and System Real-Time status bytes: F1..F6 and F8..FE.
SystemStatus == (241..254) \ {247}

\* C4: when the byte at an event's status position is a System Common or
\* System Real-Time byte, the track decode fails with an invalid-status
\* error: the byte is neither accepted as a status nor skipped.
C4_SystemStatusRejected ==
    [][ (InLoop /\ HasStatusByte /\ StatusByte \in SystemStatus)
        => FailsWith(InvalidStatusError) ]_vars

\* Where the data of the event that begins at the cursor starts: behind an
\* explicit status byte, or at the status position under running status.
DataStart == IF StatusByte >= 128 THEN Delta.cursor + 1 ELSE Delta.cursor

\* C5: for every channel-voice event, explicit or running-status, the
\* decoder consumes exactly 1 data byte when the status high nibble is C or
\* D and exactly 2 for every other status, whatever bytes follow.
C5_ChannelVoiceDataLength ==
    [][ (/\ InLoop
         /\ HasStatusByte
         /\ Len(events') = Len(events) + 1
         /\ Body(events'[Len(events')]).tag = "MIDI")
        => LET e == Body(events'[Len(events')])
               n == ChannelVoiceLen(e.status)
           IN  /\ Len(e.data) = n
               /\ e.data = SubSeq(bytes, DataStart + 1, DataStart + n)
               /\ cursor' = DataStart + n ]_vars

\* The event that begins at the cursor is well formed up to its data and
\* needs more data bytes than remain in the chunk.
NeedsMoreThanRemain ==
    /\ InLoop
    /\ HasStatusByte
    /\ LET p == Delta.cursor
       IN  IF StatusByte \in ChannelVoice
           THEN p + 1 + ChannelVoiceLen(StatusByte) > Len(bytes)
           ELSE IF StatusByte < 128
           THEN /\ IsSome(running_status)
                /\ p + ChannelVoiceLen(Unwrap(running_status)) > Len(bytes)
           ELSE IF StatusByte = 255
           THEN /\ p + 1 < Len(bytes)
                /\ bytes[p + 2] < 128
                /\ LET length == eat_variable_length_quantity(bytes, p + 2)
                   IN  /\ IsSome(length.ret)
                       /\ length.cursor + Unwrap(length.ret) > Len(bytes)
           ELSE IF StatusByte \in {240, 247}
           THEN LET length == eat_variable_length_quantity(bytes, p + 1)
                IN  /\ IsSome(length.ret)
                    /\ length.cursor + Unwrap(length.ret) > Len(bytes)
           ELSE FALSE

\* C6: when an event needs more data bytes than remain in the track chunk,
\* the track decode fails with the data-truncation error rather than
\* returning a shortened event.
C6_TruncatedDataFails ==
    [][ NeedsMoreThanRemain => FailsWith(DataTruncationError) ]_vars

----------------------------------------------------------------------------
(* The chunk splitters.  One iteration of the loop yields a raw chunk and  *)
(* the position behind it, an error, or a panic.                           *)

SplitChunk(chunk, c) ==
    [outcome |-> "chunk", error |-> "none", chunk |-> chunk, cursor |-> c]
SplitErr(e) ==
    [outcome |-> "err", error |-> e, chunk |-> NoEvent, cursor |-> 0]
SplitPanic ==
    [outcome |-> "panic", error |-> "none", chunk |-> NoEvent, cursor |-> 0]

Chunk(kind, length, data) == [kind |-> kind, length |-> length, data |-> data]

\* An `i = data_end` that leaves a byte between two chunks.
NextOffsetSkipsOne(data_end) == data_end + 1

\* `i = data_end`
NextOffset(data_end) == data_end

\* midi/mod.rs, Vec<Chunk>::try_from, the body of `while i < len` behind the
\* check of the prefix.  The sum `data_start + length as usize` overflows a
\* 32-bit usize when the length is within data_start of 2^32: a build with
\* overflow checks panics there, one without wraps to a data_end below
\* data_start, and the slice `[data_start..data_end]` panics.
MidiSplitBody(b, i, width, dbg) ==
    LET kind == ChunkKindFrom(SubSeq(b, i + 1, i + 4))
        length == U32FromBeBytes(SubSeq(b, i + 5, i + 8))
        data_start == i + 8
        data_end == UsizeAddU32(data_start, length, width)
    IN  IF data_end.overflow /\ dbg THEN SplitPanic
        ELSE IF U32Exceeds(data_end, Len(b)) THEN SplitErr("TruncatedChunkData")
        ELSE IF data_end.lo < data_start THEN SplitPanic
        ELSE SplitChunk(Chunk(kind, length,
                              SubSeq(b, data_start + 1, data_end.lo)),
                        NextOffset(data_end.lo))

\* A splitter that takes a cut-off prefix at the end of the buffer for an
\* empty chunk.
MidiSplitStepSwallowsTail(b, i, width, dbg) ==
    IF i + 8 > Len(b)
    THEN SplitChunk(Chunk(ChunkKindFrom(<<0, 0, 0, 0>>), U32Of(0), <<>>), Len(b))
    ELSE MidiSplitBody(b, i, width, dbg)

\* midi/mod.rs, Vec<Chunk>::try_from, the body of `while i < len`.
MidiSplitStep(b, i, width, dbg) ==
    IF i + 8 > Len(b) THEN SplitErr("IncompleteChunkPrefix")
    ELSE MidiSplitBody(b, i, width, dbg)

\* file/chunk/mod.rs, ChunksFile::try_from, the body of
\* `while !scanner.done()`.
FileSplitStep(b, c) ==
    LET kind == eat_array(b, c, 4)
        length == eat_array(b, kind.cursor, 4)
    IN  IF ~IsSome(kind.ret) THEN SplitErr("CouldNotReadKind")
        ELSE IF ~IsSome(length.ret) THEN SplitErr("CouldNotReadLength")
        ELSE LET n == U32FromBeBytes(Unwrap(length.ret))
                 data == eat_slice_u32(b, length.cursor, n)
             IN  IF ~IsSome(data.ret) THEN SplitErr("CouldNotReadData")
                 ELSE SplitChunk(Chunk(Unwrap(kind.ret), n, Unwrap(data.ret)),
                                 data.cursor)

----------------------------------------------------------------------------
(* A whole track decode, and the conversion of one raw chunk.              *)

TrackOk(evs) == [outcome |-> "Ok", error |-> "none", events |-> evs]
TrackErr(e) == [outcome |-> "Err", error |-> e, events |-> <<>>]
TrackPanic == [outcome |-> "panic", error |-> "none", events |-> <<>>]

\* One iteration of the loop of the track decoder `dec`.
TrackStep(dec, b, c, rs, dbg) ==
    IF dec = "core" THEN parse_event(b, c, rs, dbg)
    ELSE IF dec = "file" THEN TrackEventsFileStep(b, c, rs)
    ELSE DescriptionStep(b, c, rs, dbg)

\* The loop of a track decoder from cursor c on; TrackLoopAfter is the rest
\* of the loop once an iteration has come to s.
RECURSIVE TrackLoop(_, _, _, _, _, _)
TrackLoopAfter(dec, b, evs, dbg, s) ==
    IF s.outcome = "event"
    THEN TrackLoop(dec, b, s.cursor, s.running_status, Append(evs, s.event),
                   dbg)
    ELSE IF s.outcome = "skip"
    THEN TrackLoop(dec, b, s.cursor, s.running_status, evs, dbg)
    ELSE IF s.outcome = "err" THEN TrackErr(s.error)
    ELSE TrackPanic

TrackLoop(dec, b, c, rs, evs, dbg) ==
    IF done(b, c) THEN TrackOk(evs)
    ELSE TrackLoopAfter(dec, b, evs, dbg, TrackStep(dec, b, c, rs, dbg))

\* TrackChunk::try_from / TrackEventsFile::try_from / description's
\* TrackChunk::try_from over the data of one track chunk.
TrackTryFrom(dec, data, dbg) == TrackLoop(dec, data, 0, None, <<>>, dbg)

\* file/chunk/track.rs, TrackChunkFile::try_from: the whole data, once more
\* through a Scanner.
TrackChunkFileTryFrom(chunk) ==
    LET track_events == eat_slice_u32(chunk.data, 0, chunk.length)
    IN  IF chunk.kind # TRACK_CHUNK_KIND THEN TrackErr("InvalidKind")
        ELSE IF ~IsSome(track_events.ret) THEN TrackErr("CouldNotReadVLQ")
        ELSE IF ~done(chunk.data, track_events.cursor)
        THEN TrackErr("ScannerNotDone")
        ELSE TrackOk(Unwrap(track_events.ret))

Converted(value) == [outcome |-> "Ok", error |-> "none", value |-> value]
ConvertErr(e) == [outcome |-> "Err", error |-> e, value |-> NoEvent]
ConvertPanic == [outcome |-> "panic", error |-> "none", value |-> NoEvent]

\* AlienChunk::from(ChunkFile)
AlienChunkFrom(chunk) ==
    [tag |-> "Alien", kind |-> chunk.kind, length |-> chunk.length,
     data |-> chunk.data]

\* `Ok(Chunk::Header(header_chunk))`, or the error of the `?`.
HeaderConverted(h) ==
    IF h.outcome = "Ok" THEN Converted([tag |-> "Header", header |-> h.header])
    ELSE IF h.outcome = "Err" THEN ConvertErr(h.error)
    ELSE ConvertPanic

\* `Ok(Chunk::Track(track_chunk))`, or the error of the `?`.
TrackConverted(t) ==
    IF t.outcome = "Ok" THEN Converted([tag |-> "Track", events |-> t.events])
    ELSE IF t.outcome = "Err" THEN ConvertErr(t.error)
    ELSE ConvertPanic

\* The header arm of Chunk::try_from: HeaderChunkFile::try_from, then
\* HeaderChunk::try_from on the chunk file it returned.
CoreHeaderArm(chunk_file) ==
    IF chunk_file.outcome # "Ok" THEN HeaderConverted(chunk_file)
    ELSE HeaderConverted(CoreHeaderTryFrom(chunk_file.header))

\* The end of the track arm of Chunk::try_from: TrackEventsFile::try_from,
\* then TrackChunk::try_from.
CoreTrackStages(events_file, track_chunk) ==
    IF events_file.outcome # "Ok" THEN TrackConverted(events_file)
    ELSE TrackConverted(track_chunk)

\* The track arm of Chunk::try_from, TrackChunkFile::try_from first.
CoreTrackArm(chunk_file, dbg) ==
    IF chunk_file.outcome # "Ok" THEN TrackConverted(chunk_file)
    ELSE CoreTrackStages(TrackTryFrom("file", chunk_file.events, dbg),
                         TrackTryFrom("core", chunk_file.events, dbg))

\* core/chunk/mod.rs, Chunk::try_from(&ChunkFile)
CoreChunkTryFrom(chunk, dbg) ==
    IF chunk.kind = HEADER_CHUNK_KIND
    THEN CoreHeaderArm(HeaderChunkFileTryFrom(chunk))
    ELSE IF chunk.kind = TRACK_CHUNK_KIND
    THEN CoreTrackArm(TrackChunkFileTryFrom(chunk), dbg)
    ELSE Converted(AlienChunkFrom(chunk))

\* crates/relocate/src/main.rs, the body of `for chunk in chunks`, with the
\* header decoder of chunk/header.rs or of description/header.rs.
MainChunk(pipeline, chunk, dbg) ==
    IF chunk.kind.variant = "Header"
    THEN HeaderConverted(IF pipeline = "chunk"
                         THEN ChunkHeaderTryFrom(chunk)
                         ELSE DescriptionHeaderTryFrom(chunk))
    ELSE IF chunk.kind.variant = "Track"
    THEN TrackConverted(TrackTryFrom("description", chunk.data, dbg))
    ELSE Converted([tag |-> "Alien", kind |-> ChunkKindBytes(chunk.kind),
                    length |-> chunk.length, data |-> chunk.data])

----------------------------------------------------------------------------
(* The chunk runs: a whole-file buffer is split into raw chunks, and the   *)
(* raw chunks are then converted one by one.  The pipelines are            *)
(*   "core":        file/chunk/mod.rs, then core/chunk/mod.rs;             *)
(*   "description": midi/mod.rs, then relocate's main with the header      *)
(*                  decoder of description/header.rs;                     *)
(*   "chunk":       midi/mod.rs, then relocate's main with the header      *)
(*                  decoder of chunk/header.rs.                            *)

Pipelines == {"core", "description", "chunk"}

\* A tag that is neither MThd nor MTrk, and one that differs from MTrk in
\* the case of its last letter only.
ALIEN_KIND == <<88, 70, 73, 72>>
NEAR_TRACK_KIND == <<77, 84, 114, 75>>

\* The file image of a chunk that declares the length of its data.
ChunkImage(kind, data) == kind \o <<0, 0, 0, Len(data)>> \o data

\* k trailing bytes.
Trail(k) == [j \in 1..k |-> 255]

\* Six-byte header data: format 1 with 2 tracks at 96 ticks; format 0 with
\* 1 track at 24 frames per second; format 0 with 2 tracks; an unknown
\* format; an invalid frame rate; a track count above 255; format 0 with
\* no track and an invalid frame rate.
HeaderBases ==
    { <<0, 1, 0, 2, 0, 96>>, <<0, 0, 0, 1, 232, 40>>, <<0, 0, 0, 2, 0, 96>>,
      <<0, 3, 0, 1, 0, 96>>, <<0, 1, 0, 1, 128, 0>>, <<0, 2, 1, 0, 127, 255>>,
      <<0, 0, 0, 0, 128, 0>> }

\* Header data cut short at every length below 6, whole, and with trailing
\* bytes.
HeaderDatas ==
    {SubSeq(h, 1, k) : h \in HeaderBases, k \in 0..6}
        \cup {h \o Trail(k) : h \in HeaderBases, k \in 1..MaxTrailing}

\* The pieces file buffers are put together from: whole chunks (a header,
\* tracks that decode, fail and are cut inside an event, alien chunks, a
\* header with an alien chunk behind it, a track that fails with an alien
\* chunk behind it),
\* prefixes cut off after 1, 4 and 7 bytes, chunks that declare more data
\* than follows, and chunks that declare a length of 2^32 - 1 and 2^16.
FileItems ==
    { ChunkImage(HEADER_CHUNK_KIND, <<0, 1, 0, 2, 0, 96>>),
      ChunkImage(TRACK_CHUNK_KIND, <<0, 255, 47, 0>>),
      ChunkImage(TRACK_CHUNK_KIND, <<0, 64>>),
      ChunkImage(TRACK_CHUNK_KIND, <<0, 192>>),
      ChunkImage(TRACK_CHUNK_KIND, <<>>),
      ChunkImage(ALIEN_KIND, <<>>),
      ChunkImage(HEADER_CHUNK_KIND, <<0, 1, 0, 2, 0, 96>>)
          \o ChunkImage(ALIEN_KIND, <<255, 0>>),
      ChunkImage(TRACK_CHUNK_KIND, <<0, 64>>)
          \o ChunkImage(ALIEN_KIND, <<>>),
      ChunkImage(NEAR_TRACK_KIND, <<7>>),
      <<77>>,
      TRACK_CHUNK_KIND,
      TRACK_CHUNK_KIND \o <<0, 0, 0>>,
      TRACK_CHUNK_KIND \o <<0, 0, 0, 10>> \o <<0, 255, 47, 0, 0>>,
      ALIEN_KIND \o <<0, 0, 0, 1>>,
      TRACK_CHUNK_KIND \o <<255, 255, 255, 255>>,
      ALIEN_KIND \o <<0, 1, 0, 0>> \o <<0>> }

RECURSIVE Flatten(_)
Flatten(ss) == IF ss = <<>> THEN <<>> ELSE Head(ss) \o Flatten(Tail(ss))

FileBuffers ==
    {Flatten(ss) : ss \in SeqsUpTo(FileItems, MaxFileItems)}
        \cup {ChunkImage(HEADER_CHUNK_KIND, d) : d \in HeaderDatas}

\* The track-run variables, unused in the chunk runs.
TrackLoopIdle ==
    /\ tracks = <<>>
    /\ running_status = None
    /\ events = <<>>

\* MIDIFile::from(bytes), and the entry of the chunk splitter.
InitFile ==
    /\ decoder \in Pipelines
    /\ debug_assertions \in BOOLEAN
    /\ target_pointer_width \in {32, 64}
    /\ bytes \in FileBuffers
    /\ cursor = 0
    /\ files = <<>>
    /\ ti = 0
    /\ chunks = <<>>
    /\ result = "splitting"
    /\ error = "none"
    /\ TrackLoopIdle
    /\ ScannerLogIdle

\* One iteration of the running pipeline's chunk splitter.
SplitStep ==
    IF decoder = "core"
    THEN FileSplitStep(bytes, cursor)
    ELSE MidiSplitStep(bytes, cursor, target_pointer_width, debug_assertions)

Splitting == result = "splitting" /\ ~done(bytes, cursor)

\* The `?` / `return Err(..)` of the splitter returns the error alone.
FilesOnFailure(fs) == <<>>

\* `files.push(ChunkFile { kind, length, data })` / `chunks.push(..)`
PushChunk ==
    /\ Splitting
    /\ SplitStep.outcome = "chunk"
    /\ files' = Append(files, SplitStep.chunk)
    /\ cursor' = SplitStep.cursor
    /\ UNCHANGED <<bytes, decoder, debug_assertions, target_pointer_width, ti,
                   chunks, result, error, tracks, running_status, events, op,
                   ret, arg>>

\* The splitter returns an error.
FailSplit ==
    /\ Splitting
    /\ SplitStep.outcome = "err"
    /\ result' = "Err"
    /\ error' = SplitStep.error
    /\ files' = FilesOnFailure(files)
    /\ UNCHANGED <<bytes, cursor, decoder, debug_assertions,
                   target_pointer_width, ti, chunks, tracks, running_status,
                   events, op, ret, arg>>

\* The splitter panics.
PanicSplit ==
    /\ Splitting
    /\ SplitStep.outcome = "panic"
    /\ result' = "panic"
    /\ files' = FilesOnFailure(files)
    /\ UNCHANGED <<bytes, cursor, decoder, debug_assertions,
                   target_pointer_width, ti, chunks, error, tracks,
                   running_status, events, op, ret, arg>>

\* The splitter's loop ends with the buffer consumed: `Ok(..)`, and the
\* caller starts on the raw chunks.
FinishSplit ==
    /\ result = "splitting"
    /\ done(bytes, cursor)
    /\ result' = "converting"
    /\ UNCHANGED <<bytes, cursor, files, decoder, debug_assertions,
                   target_pointer_width, ti, chunks, error, tracks,
                   running_status, events, op, ret, arg>>

Converting == result = "converting" /\ ti < Len(files)

\* What a pipeline makes of a raw chunk.
ConvertOf(pipeline, chunk, dbg) ==
    IF pipeline = "core"
    THEN CoreChunkTryFrom(chunk, dbg)
    ELSE MainChunk(pipeline, chunk, dbg)

\* What the running pipeline makes of the next raw chunk.
Convert == ConvertOf(decoder, files[ti + 1], debug_assertions)

\* `chunks.push(chunk)` in MIDI::try_from; a "Found ..." line in main.
ConvertChunk ==
    /\ Converting
    /\ Convert.outcome = "Ok"
    /\ chunks' = Append(chunks, Convert.value)
    /\ ti' = ti + 1
    /\ UNCHANGED <<bytes, cursor, files, decoder, debug_assertions,
                   target_pointer_width, result, error, tracks,
                   running_status, events, op, ret, arg>>

\* main reports the error of a chunk and goes on to the next.
ReportChunkError ==
    /\ Converting
    /\ decoder # "core"
    /\ Convert.outcome = "Err"
    /\ chunks' = Append(chunks, [tag |-> "Error", error |-> Convert.error])
    /\ ti' = ti + 1
    /\ UNCHANGED <<bytes, cursor, files, decoder, debug_assertions,
                   target_pointer_width, result, error, tracks,
                   running_status, events, op, ret, arg>>

\* The chunks a whole-file decode that still holds some leaves behind when
\* it fails.
ChunksKeptOnFailure(cs) == cs

\* The `?` in the loop of MIDI::try_from returns the error alone: the local
\* chunks vector is dropped.
ChunksOnFailure(cs) == <<>>

\* The `?` of MIDI::try_from returns the error of the first chunk that
\* fails.
FailConvert ==
    /\ Converting
    /\ decoder = "core"
    /\ Convert.outcome = "Err"
    /\ result' = "Err"
    /\ error' = Convert.error
    /\ chunks' = ChunksOnFailure(chunks)
    /\ ti' = ti + 1
    /\ UNCHANGED <<bytes, cursor, files, decoder, debug_assertions,
                   target_pointer_width, tracks, running_status, events, op,
                   ret, arg>>

\* The conversion of a chunk panics.
PanicConvert ==
    /\ Converting
    /\ Convert.outcome = "panic"
    /\ result' = "panic"
    /\ chunks' = <<>>
    /\ ti' = ti + 1
    /\ UNCHANGED <<bytes, cursor, files, decoder, debug_assertions,
                   target_pointer_width, error, tracks, running_status,
                   events, op, ret, arg>>

\* Every raw chunk is converted: `Ok(MIDI(chunks))`; main's loop ends.
FinishFile ==
    /\ result = "converting"
    /\ ti = Len(files)
    /\ result' = "Ok"
    /\ UNCHANGED <<bytes, cursor, files, decoder, debug_assertions,
                   target_pointer_width, ti, chunks, error, tracks,
                   running_status, events, op, ret, arg>>

NextFile ==
    \/ PushChunk
    \/ FailSplit
    \/ PanicSplit
    \/ FinishSplit
    \/ ConvertChunk
    \/ ReportChunkError
    \/ FailConvert
    \/ PanicConvert
    \/ FinishFile

SpecFile == InitFile /\ [][NextFile]_vars

----------------------------------------------------------------------------
(* The chunk format as the specification states it, read off the buffer.   *)

\* The four tag bytes of the chunk that begins at offset o.
TagAt(o) == SubSeq(bytes, o + 1, o + 4)

\* The declared length of the chunk that begins at offset o: the big-endian
\* value of prefix bytes 4..8, as two 16-bit halves.
DeclaredAt(o) ==
    [hi |-> bytes[o + 5] * 256 + bytes[o + 6],
     lo |-> bytes[o + 7] * 256 + bytes[o + 8]]

\* The declared length of the chunk at offset o exceeds what follows its
\* 8-byte prefix.
DeclaredExceeds(o) ==
    \/ DeclaredAt(o).hi > 0
    \/ DeclaredAt(o).lo > Len(bytes) - o - 8

\* The tag bytes of a raw chunk, whichever splitter made it.
KindBytesOf(chunk) ==
    IF decoder = "core" THEN chunk.kind ELSE ChunkKindBytes(chunk.kind)

\* The names the pipelines give the error kinds.
IncompletePrefixError ==
    {"IncompleteChunkPrefix", "CouldNotReadKind", "CouldNotReadLength"}
TruncatedChunkError == {"TruncatedChunkData", "CouldNotReadData"}
FormatFieldError == {"MalformedMIDIFormat", "CouldNotReadFormat"}
TracksCountFieldError == {"MalformedTracksCount", "CouldNotReadTrackCount"}
DivisionFieldError == {"MalformedDivision", "CouldNotReadDivision"}

\* The step pushes one raw chunk, of this tag, length and data.
PushesRaw(tag, length, data) ==
    /\ Len(files') = Len(files) + 1
    /\ SubSeq(files', 1, Len(files)) = files
    /\ KindBytesOf(files'[Len(files')]) = tag
    /\ files'[Len(files')].length = length
    /\ files'[Len(files')].data = data

\* The conversion of the next raw chunk ends in an error of one of these
\* kinds: returned by MIDI::try_from, or reported by main.
ChunkFailsWith(kinds) ==
    \/ FailsWith(kinds)
    \/ /\ Len(chunks') = Len(chunks) + 1
       /\ chunks'[Len(chunks')].tag = "Error"
       /\ chunks'[Len(chunks')].error \in kinds

\* The raw chunk that is converted next.
NextRaw == files[ti + 1]

\* C13: for chunk data of any length and content, header decoding and track
\* decoding never panic (never index outside the data): the conversion of
\* a raw chunk ends in a value or in an error value.
C13_DecodingTotal ==
    [][ Converting => result' # "panic" ]_vars

\* C14: chunk splitting fails with the incomplete-prefix error whenever, at
\* a chunk boundary, at least 1 but fewer than 8 bytes remain.
C14_IncompletePrefix ==
    [][ (result = "splitting" /\ Remaining(bytes, cursor) \in 1..7)
        => FailsWith(IncompletePrefixError) ]_vars

\* C14 witness: behind a chunk that was split off, fewer than 8 bytes were
\* left and the split failed with the incomplete-prefix error.
C14_Witness ==
    /\ result = "Err"
    /\ error \in IncompletePrefixError
    /\ cursor >= 8
    /\ Remaining(bytes, cursor) \in 1..7

\* C15: chunk splitting fails with the truncated-data error whenever a
\* chunk's declared length exceeds the number of bytes remaining after its
\* 8-byte prefix, and succeeds with an empty data view when the declared
\* length is 0.
C15_TruncatedChunk ==
    [][ (result = "splitting" /\ Remaining(bytes, cursor) >= 8)
        => IF DeclaredExceeds(cursor)
           THEN FailsWith(TruncatedChunkError)
           ELSE DeclaredAt(cursor) = U32Of(0)
                => /\ PushesRaw(TagAt(cursor), U32Of(0), <<>>)
                   /\ result' = "splitting" ]_vars

\* The offset behind the first k raw chunks, by the lengths of their data.
RECURSIVE DataEnd(_, _)
DataEnd(fs, k) ==
    IF k = 0 THEN 0 ELSE DataEnd(fs, k - 1) + 8 + Len(fs[k].data)

\* C16: every raw chunk the chunk splitter returns has data length equal to
\* its declared length, the declared length being the big-endian value of
\* bytes 4..8 of its prefix.
C16_DataLengthIsDeclared ==
    \A k \in 1..Len(files) :
        /\ DataEnd(files, k) <= Len(bytes)
        /\ files[k].length = DeclaredAt(DataEnd(files, k - 1))
        /\ files[k].length.hi = 0
        /\ files[k].length.lo = Len(files[k].data)

\* C16 witness: the file splitter returned two chunks, the second with a
\* declared length of 4 and four bytes of data.
C16_Witness ==
    /\ decoder = "core"
    /\ result = "converting"
    /\ Len(files) = 2
    /\ files[2].length = U32Of(4)
    /\ Len(files[2].data) = 4

\* The offset o_k at which raw chunk k begins (k counted from 1), by the
\* declared lengths: o_1 = 0, o_(k+1) = o_k + 8 + length_k.
RECURSIVE OffsetOf(_, _)
OffsetOf(fs, k) ==
    IF k = 1 THEN 0 ELSE OffsetOf(fs, k - 1) + 8 + fs[k - 1].length.lo

\* C17: chunk boundaries tile the buffer: chunk k starts at o_k, its tag and
\* data are exactly the bytes at o_k and at o_k+8 .. o_k+8+length_k, the
\* splitter stands at the end of the last chunk, and when splitting succeeds
\* the last chunk ends at the buffer's end; an empty buffer yields zero
\* chunks.
C17_ChunksTile ==
    /\ \A k \in 1..Len(files) :
          LET o == OffsetOf(files, k)
          IN  /\ files[k].length.hi = 0
              /\ o + 8 + files[k].length.lo <= Len(bytes)
              /\ KindBytesOf(files[k]) = TagAt(o)
              /\ files[k].data
                     = SubSeq(bytes, o + 9, o + 8 + files[k].length.lo)
    /\ result = "splitting" => cursor = OffsetOf(files, Len(files) + 1)
    /\ result \in {"converting", "Ok"}
       => OffsetOf(files, Len(files) + 1) = Len(bytes)
    /\ (Len(bytes) = 0 /\ result # "splitting")
       => files = <<>> /\ result \in {"converting", "Ok"}

\* C17 witness: the midi splitter split a buffer into a header chunk of six
\* bytes and a track chunk of four, which end at the buffer's end.
C17_Witness ==
    /\ decoder = "description"
    /\ result = "Ok"
    /\ Len(files) = 2
    /\ Len(files[1].data) = 6
    /\ Len(files[2].data) = 4
    /\ Len(bytes) = 26

\* The tags the format defines.
KnownKinds == {HEADER_CHUNK_KIND, TRACK_CHUNK_KIND}

\* C18: a chunk whose tag is neither MThd nor MTrk never causes an error,
\* for any declared length that fits the buffer and any data: the splitter
\* returns it as it stands, its conversion yields an alien chunk with the
\* unchanged tag, length and data behind the chunks converted before it, and
\* the conversion goes on to the chunks after it.
C18_AlienPreserved ==
    [][ /\ (/\ result = "splitting"
            /\ Remaining(bytes, cursor) >= 8
            /\ TagAt(cursor) \notin KnownKinds
            /\ ~DeclaredExceeds(cursor))
           => /\ PushesRaw(TagAt(cursor), DeclaredAt(cursor),
                           SubSeq(bytes, cursor + 9,
                                  cursor + 8 + DeclaredAt(cursor).lo))
              /\ result' = "splitting"
        /\ (Converting /\ KindBytesOf(NextRaw) \notin KnownKinds)
           => /\ chunks' = Append(chunks,
                                  [tag |-> "Alien",
                                   kind |-> KindBytesOf(NextRaw),
                                   length |-> NextRaw.length,
                                   data |-> NextRaw.data])
              /\ result' = "converting"
              /\ ti' = ti + 1
              /\ files' = files ]_vars

\* C18 witness: an alien chunk with two bytes of data stands between a
\* header chunk and a track chunk, and all three were converted.
C18_Witness ==
    /\ result = "Ok"
    /\ Len(chunks) = 3
    /\ chunks[1].tag = "Header"
    /\ chunks[2].tag = "Alien"
    /\ chunks[2].kind = ALIEN_KIND
    /\ chunks[2].data = <<255, 0>>
    /\ chunks[3].tag = "Track"

\* A raw chunk with the header tag.
IsHeaderChunk(chunk) == KindBytesOf(chunk) = HEADER_CHUNK_KIND

\* The header chunk of the first six bytes of a longer one's data.
SixByteChunk(chunk) ==
    [chunk EXCEPT !.data = SubSeq(chunk.data, 1, 6), !.length = U32Of(6)]

\* C19: header decoding tolerates trailing bytes: a header chunk whose data
\* is longer than 6 bytes and whose first 6 bytes decode successfully
\* decodes successfully to the same header as the 6-byte chunk.
C19_TrailingBytesTolerated ==
    [][ (/\ Converting
         /\ IsHeaderChunk(NextRaw)
         /\ Len(NextRaw.data) > 6
         /\ ConvertOf(decoder, SixByteChunk(NextRaw), debug_assertions).outcome
                = "Ok")
        => chunks' = Append(chunks,
                            ConvertOf(decoder, SixByteChunk(NextRaw),
                                      debug_assertions).value) ]_vars

\* The fields that lie whole within the first n bytes of header data d are
\* valid: a known format, and a track count of 1 under format 0.
WholeFieldsValid(d) ==
    /\ Len(d) >= 2 => IsSome(FormatTryFrom(SubSeq(d, 1, 2)))
    /\ Len(d) >= 4 => (SubSeq(d, 1, 2) = <<0, 0>> => SubSeq(d, 3, 4) = <<0, 1>>)

\* The error kind of the first field that n bytes of header data run out in.
FieldErrorAt(n) ==
    IF n < 2 THEN FormatFieldError
    ELSE IF n < 4 THEN TracksCountFieldError
    ELSE DivisionFieldError

\* C20: a header chunk with fewer than 6 data bytes fails with the
\* malformed-field error of the first field that ran out: the format error
\* for 0 or 1 bytes, the track-count error for 2 or 3 bytes, the division
\* error for 4 or 5 bytes.
C20_ShortHeaderFieldError ==
    [][ (/\ Converting
         /\ IsHeaderChunk(NextRaw)
         /\ Len(NextRaw.data) < 6
         /\ WholeFieldsValid(NextRaw.data))
        => ChunkFailsWith(FieldErrorAt(Len(NextRaw.data))) ]_vars

\* The error of the cross-field check of the track count.  The name
\* MalformedTracksCount is that of the track-count field that cannot be
\* read, and so is not among them.
TracksCountProtocolError == {"InvalidTracksCount"}

\* The step pushes a decoded header of format SingleMultiChannelTrack.
PushesSingleTrackHeader ==
    /\ Len(chunks') = Len(chunks) + 1
    /\ chunks'[Len(chunks')].tag = "Header"
    /\ chunks'[Len(chunks')].header.format = "SingleMultiChannelTrack"

\* C21: a header whose format bytes are [0x00, 0x00] and whose track count
\* is not 1 fails with the tracks-count protocol error, which is not the
\* error of a track-count field that cannot be read; and every header
\* decoded with format SingleMultiChannelTrack has a track count of 1.
C21_TracksCountCrossCheck ==
    [][ /\ (/\ Converting
            /\ IsHeaderChunk(NextRaw)
            /\ Len(NextRaw.data) = 6
            /\ SubSeq(NextRaw.data, 1, 2) = <<0, 0>>
            /\ SubSeq(NextRaw.data, 3, 4) # <<0, 1>>)
           => ChunkFailsWith(TracksCountProtocolError)
        /\ (Converting /\ PushesSingleTrackHeader)
           => chunks'[Len(chunks')].header.tracks_count = 1 ]_vars

----------------------------------------------------------------------------
(* The field runs: the decoders of the header's format and division fields *)
(* are applied to a byte pair, every one of the 65536.                     *)

U8 == 0..255

\* A [u8; 2] handed to a field decoder.
InitField ==
    /\ bytes \in {<<high, low>> : high \in U8, low \in U8}
    /\ cursor = 0
    /\ op = "new"
    /\ ret = None
    /\ arg = 0
    /\ TrackIdle

FormatOps == {"Format::try_from", "MIDIFormat::try_from"}
DivisionOps == {"Division::try_from", "header::Division::try_from"}

\* Format::try_from(&bytes)
FormatOfPair ==
    /\ op' = "Format::try_from"
    /\ ret' = FormatTryFrom(bytes)
    /\ UNCHANGED <<bytes, cursor, arg>>
    /\ UNCHANGED trackVars

\* MIDIFormat::try_from(bytes)
MIDIFormatOfPair ==
    /\ op' = "MIDIFormat::try_from"
    /\ ret' = MIDIFormatTryFrom(bytes)
    /\ UNCHANGED <<bytes, cursor, arg>>
    /\ UNCHANGED trackVars

\* FPS::try_from(high)
FPSOfByte ==
    /\ op' = "FPS::try_from"
    /\ ret' = FPSTryFrom(bytes[1])
    /\ UNCHANGED <<bytes, cursor, arg>>
    /\ UNCHANGED trackVars

\* Division::try_from(bytes) of description/chunk/header/division
DivisionOfPair ==
    /\ op' = "Division::try_from"
    /\ ret' = DivisionTryFrom(bytes)
    /\ UNCHANGED <<bytes, cursor, arg>>
    /\ UNCHANGED trackVars

\* Division::try_from(bytes) of chunk/header.rs and description/header.rs
HeaderDivisionOfPair ==
    /\ op' = "header::Division::try_from"
    /\ ret' = HeaderDivisionTryFrom(bytes)
    /\ UNCHANGED <<bytes, cursor, arg>>
    /\ UNCHANGED trackVars

NextField ==
    \/ FormatOfPair
    \/ MIDIFormatOfPair
    \/ FPSOfByte
    \/ DivisionOfPair
    \/ HeaderDivisionOfPair

SpecField == InitField /\ [][NextField]_vars

\* The formats, by the value of the format word.
FormatNames ==
    << "SingleMultiChannelTrack", "SimultaneousTracks",
       "SequentiallyIndependentSingleTrackPatterns" >>

\* C22: the byte pair [0,0] decodes to SingleMultiChannelTrack, [0,1] to
\* SimultaneousTracks, [0,2] to SequentiallyIndependentPatterns, and every
\* other byte pair fails with the unknown-format error.
C22_FormatDecoding ==
    op \in FormatOps =>
        /\ IsSome(ret) <=> (bytes[1] = 0 /\ bytes[2] \in 0..2)
        /\ IsSome(ret) => Unwrap(ret) = FormatNames[bytes[2] + 1]

\* The pair [0,2] was decoded to the third format.
C22_Witness ==
    /\ op \in FormatOps
    /\ bytes = <<0, 2>>
    /\ ret = Some("SequentiallyIndependentSingleTrackPatterns")

\* Bit 7 of a byte.
Bit7(byte) == (byte \div 128) % 2

\* The frame rate a high byte stands for, as the specification lists them.
FrameRateOf(high) ==
    CASE high = 232 -> "FPS24"
      [] high = 231 -> "FPS25"
      [] high = 227 -> "FPS30Drop"
      [] high = 226 -> "FPS30"

\* C23: for every byte pair [high, low]: when bit 7 of high is 0 the
\* division is TicksPerQuarterNote(high*256 + low), a value below 0x8000;
\* when bit 7 is 1 it is TimeCode with ticks_per_frame = low and frame rate
\* 24, 25, 30-drop or 30 for high = 232, 231, 227, 226, and the
\* invalid-frame-rate error for every other high byte.
C23_DivisionDecoding ==
    op \in DivisionOps =>
        IF Bit7(bytes[1]) = 0
        THEN /\ ret = Some([tag |-> "TicksPerQuarterNote",
                            ticks |-> bytes[1] * 256 + bytes[2]])
             /\ Unwrap(ret).ticks < 32768
        ELSE IF bytes[1] \in {232, 231, 227, 226}
        THEN ret = Some([tag |-> "TimeCode",
                         frames_per_second |-> FrameRateOf(bytes[1]),
                         ticks_per_frame |-> bytes[2]])
        ELSE ret = None

\* The pair [227, 40] was decoded to 30-drop frames of 40 ticks.
C23_Witness ==
    /\ op \in DivisionOps
    /\ bytes = <<227, 40>>
    /\ IsSome(ret)
    /\ Unwrap(ret).frames_per_second = "FPS30Drop"

----------------------------------------------------------------------------
(* Text: std::str::from_utf8 and String::from_utf8_lossy.  A String is     *)
(* modelled as the sequence of its code points.                            *)

\* U+FFFD REPLACEMENT CHARACTER
REPLACEMENT_CHARACTER == 65533

\* The width of the UTF-8 sequence a byte leads; 0 when it leads none.
Utf8CharWidth(first) ==
    IF first < 128 THEN 1
    ELSE IF first \in 194..223 THEN 2
    ELSE IF first \in 224..239 THEN 3
    ELSE IF first \in 240..244 THEN 4
    ELSE 0

\* The second bytes a lead byte admits.
Utf8SecondRange(first) ==
    IF first = 224 THEN 160..191
    ELSE IF first = 237 THEN 128..159
    ELSE IF first = 240 THEN 144..191
    ELSE IF first = 244 THEN 128..143
    ELSE 128..191

\* Whether byte k (counted from 0) of the sequence that begins at index i
\* of d is there and is one the sequence admits.
Utf8ByteOk(d, i, k) ==
    /\ i + k + 1 <= Len(d)
    /\ IF k = 0 THEN Utf8CharWidth(d[i + 1]) > 0
       ELSE IF k = 1 THEN d[i + 2] \in Utf8SecondRange(d[i + 1])
       ELSE d[i + k + 1] \in 128..191

\* How many bytes from index i on form the beginning of one sequence.
Utf8ValidUpTo(d, i) ==
    LET w == Utf8CharWidth(d[i + 1])
        Good(n) == \A k \in 0..(n - 1) : Utf8ByteOk(d, i, k)
    IN  CHOOSE n \in 0..w :
            /\ Good(n)
            /\ \A n2 \in (n + 1)..w : ~Good(n2)

\* The code point of the whole sequence of w bytes at index i.
Utf8CodePoint(d, i, w) ==
    IF w = 1 THEN d[i + 1]
    ELSE IF w = 2 THEN (d[i + 1] - 192) * 64 + (d[i + 2] - 128)
    ELSE IF w = 3
    THEN (d[i + 1] - 224) * 4096 + (d[i + 2] - 128) * 64 + (d[i + 3] - 128)
    ELSE (d[i + 1] - 240) * 262144 + (d[i + 2] - 128) * 4096
             + (d[i + 3] - 128) * 64 + (d[i + 4] - 128)

\* std::str::from_utf8(d), from index i on: the text, or None for
\* Err(Utf8Error).
RECURSIVE from_utf8_at(_, _)
from_utf8_at(d, i) ==
    IF i >= Len(d) THEN Some(<<>>)
    ELSE LET w == Utf8CharWidth(d[i + 1])
         IN  IF w = 0 \/ Utf8ValidUpTo(d, i) < w THEN None
             ELSE LET rest == from_utf8_at(d, i + w)
                  IN  IF ~IsSome(rest) THEN None
                      ELSE Some(<<Utf8CodePoint(d, i, w)>> \o Unwrap(rest))

from_utf8(d) == from_utf8_at(d, 0)

\* String::from_utf8_lossy(d), from index i on: every invalid sequence
\* becomes one U+FFFD.
RECURSIVE from_utf8_lossy_at(_, _)
from_utf8_lossy_at(d, i) ==
    IF i >= Len(d) THEN <<>>
    ELSE LET w == Utf8CharWidth(d[i + 1])
             n == Utf8ValidUpTo(d, i)
         IN  IF w > 0 /\ n = w
             THEN <<Utf8CodePoint(d, i, w)>> \o from_utf8_lossy_at(d, i + w)
             ELSE <<REPLACEMENT_CHARACTER>>
                      \o from_utf8_lossy_at(d, i + (IF n = 0 THEN 1 ELSE n))

from_utf8_lossy(d) == from_utf8_lossy_at(d, 0)

----------------------------------------------------------------------------
(* The meta-event decoders: core/event/meta.rs over a MetaEventFile, and   *)
(* event/meta.rs over an EventKind.                                        *)

\* Ok(event), or Err(error); InvalidStatus carries a byte.
MetaOk(ev) ==
    [outcome |-> "Ok", error |-> "none", carried |-> None, event |-> ev]
MetaErr(e) ==
    [outcome |-> "Err", error |-> e, carried |-> None, event |-> NoEvent]
InvalidStatus(status) ==
    [outcome |-> "Err", error |-> "InvalidStatus", carried |-> Some(status),
     event |-> NoEvent]
MetaPanic ==
    [outcome |-> "panic", error |-> "none", carried |-> None,
     event |-> NoEvent]

\* `byte as i8`
AsI8(byte) == IF byte < 128 THEN byte ELSE byte - 256

\* The names of the text variants, by status 0x01 .. 0x0F.
TextVariant(status) ==
    IF status = 2 THEN "CopyrightNotice"
    ELSE IF status = 3 THEN "SequenceOrTrackName"
    ELSE IF status = 4 THEN "InstrumentName"
    ELSE IF status = 5 THEN "Lyric"
    ELSE IF status = 6 THEN "Marker"
    ELSE IF status = 7 THEN "CuePoint"
    ELSE "TextEvent"

\* The arms that read the payload through a Scanner: they take N bytes
\* and then require the scanner to be done.  The error, or "none".
FixedShapeError(data, N, short) ==
    IF ~IsSome(eat_bytes(data, 0, N).ret) THEN short
    ELSE IF ~done(data, N) THEN "InvalidScannerState"
    ELSE "none"

\* `let status = value.status;`
MetaDispatchByte(value) == value.status

\* core/event/meta.rs, MetaEvent::try_from(&MetaEventFile), from the match
\* on.
CoreMetaMatch(status, data) ==
    IF status = 0
    THEN IF FixedShapeError(data, 2, "InvalidNumber") # "none"
         THEN MetaErr(FixedShapeError(data, 2, "InvalidNumber"))
         ELSE MetaOk([variant |-> "SequenceNumber",
                      number |-> Unwrap(eat_u16_be(data, 0).ret)])
    ELSE IF status \in 1..15
    THEN MetaOk([variant |-> TextVariant(status),
                 text |-> from_utf8_lossy(data)])
    ELSE IF status = 32
    THEN IF FixedShapeError(data, 1, "InvalidData") # "none"
         THEN MetaErr(FixedShapeError(data, 1, "InvalidData"))
         ELSE MetaOk([variant |-> "MIDIChannelPrefix", channel |-> data[1]])
    ELSE IF status = 33
    THEN IF FixedShapeError(data, 1, "InvalidData") # "none"
         THEN MetaErr(FixedShapeError(data, 1, "InvalidData"))
         ELSE MetaOk([variant |-> "MIDIPort", port |-> data[1]])
    ELSE IF status = 47
    THEN MetaOk([variant |-> "EndOfTrack"])
    ELSE IF status = 81
    THEN IF FixedShapeError(data, 3, "InvalidData") # "none"
         THEN MetaErr(FixedShapeError(data, 3, "InvalidData"))
         ELSE MetaOk([variant |-> "SetTempo",
                      tempo |-> data[1] * 65536 + data[2] * 256 + data[3]])
    ELSE IF status = 84
    THEN IF FixedShapeError(data, 5, "InvalidData") # "none"
         THEN MetaErr(FixedShapeError(data, 5, "InvalidData"))
         ELSE MetaOk([variant |-> "SMPTEOffset", hours |-> data[1],
                      minutes |-> data[2], seconds |-> data[3],
                      frames |-> data[4], fractional_frames |-> data[5]])
    ELSE IF status = 88
    THEN IF FixedShapeError(data, 4, "InvalidData") # "none"
         THEN MetaErr(FixedShapeError(data, 4, "InvalidData"))
         ELSE MetaOk([variant |-> "TimeSignature", numerator |-> data[1],
                      denominator |-> data[2],
                      midi_clocks_per_metronome_click |-> data[3],
                      thirty_second_notes_per_midi_quarter_note |-> data[4]])
    ELSE IF status = 89
    THEN IF FixedShapeError(data, 2, "InvalidData") # "none"
         THEN MetaErr(FixedShapeError(data, 2, "InvalidData"))
         ELSE MetaOk([variant |-> "KeySignature",
                      sharps_flats |-> AsI8(data[1]),
                      major_minor |-> data[2]])
    ELSE InvalidStatus(status)

\* core/event/meta.rs, MetaEvent::try_from(&MetaEventFile)
CoreMetaEventTryFrom(value) ==
    CoreMetaMatch(MetaDispatchByte(value), value.data)

\* core/event/mod.rs, Event::try_from(&EventFile): the other arms are
\* todo!().
CoreEventTryFrom(value) ==
    IF value.tag = "Meta" THEN CoreMetaEventTryFrom(value) ELSE MetaPanic

\* The text arms of event/meta.rs, which take the payload for UTF-8.
EventMetaText(status, data) ==
    IF ~IsSome(from_utf8(data)) THEN MetaErr("InvalidTextEncoding")
    ELSE MetaOk([variant |-> TextVariant(status),
                 text |-> Unwrap(from_utf8(data))])

\* event/meta.rs, MetaEvent::try_from(&EventKind)
EventMetaEventTryFrom(value) ==
    IF value.tag # "Meta" THEN MetaErr("InvalidEventKind")
    ELSE
    LET status == value.status
        data == value.data
    IN  IF status = 0 /\ Len(data) = 2
        THEN MetaOk([variant |-> "SequenceNumber",
                     number |-> Unwrap(eat_u16_be(data, 0).ret)])
        ELSE IF status = 0 THEN MetaErr("InvalidData")
        ELSE IF status \in 1..15 THEN EventMetaText(status, data)
        ELSE IF status = 32 /\ Len(data) = 2
        THEN IF eat(data, 0).ret # Some(1) THEN MetaErr("InvalidData")
             ELSE MetaOk([variant |-> "MIDIChannelPrefix",
                          channel |-> Unwrap(eat(data, 1).ret)])
        ELSE IF status = 32 THEN MetaErr("InvalidData")
        ELSE IF status = 47 THEN MetaOk([variant |-> "EndOfTrack"])
        ELSE InvalidStatus(status)

----------------------------------------------------------------------------
(* The meta runs: the events of a track are read into their file form,     *)
(* and each is then converted to an event.  The pipelines are              *)
(*   "core":  TrackEventsFile::try_from of file/event/track.rs, then       *)
(*            Event::try_from of core/event/mod.rs;                        *)
(*   "event": parse_event of description/chunk/track.rs, then              *)
(*            MetaEvent::try_from of event/meta.rs.                        *)

MetaDecoders == {"core", "event"}

\* Longest meta payload of the meta runs.
MaxPayload == 6

\* The bytes payloads are made of: an ASCII byte, a continuation byte and
\* the lead byte of a two-byte sequence.
PayloadBytes == {1, 128, 200}

\* The type bytes of the meta runs: 0x00 .. 0x10, 0x20, 0x21, 0x2F, 0x30,
\* 0x51, 0x54, 0x58, 0x59, 0x7F, 0x80 and 0xFF.
MetaTypes == (0..16) \cup {32, 33, 47, 48, 81, 84, 88, 89, 127, 128, 255}

\* Tracks of a meta event with another event behind it: a length of two
\* VLQ bytes, a payload that holds the bytes of an end of track, a payload
\* of three bytes before a note-on, an empty payload, and a payload that
\* is cut short by the end of the track.
MetaSequences ==
    { <<0, 255, 1, 128, 1, 65, 0, 255, 47, 0>>,
      <<0, 255, 1, 3, 255, 47, 0, 0, 255, 47, 0>>,
      <<0, 255, 81, 3, 7, 161, 32, 0, 144, 60, 64>>,
      <<129, 0, 255, 6, 0, 0, 255, 47, 0>>,
      <<0, 255, 127, 2, 1, 2, 0, 192, 5>>,
      <<0, 255, 1, 4, 1, 2, 3>> }

\* `FF <type> <length> <bytes>` behind a delta-time of 0; a track cut
\* inside a meta event; a system-exclusive event, a channel message, and a
\* system-common status before an end of track.
MetaTracks ==
    { <<0, 255, type, Len(data)>> \o data :
          type \in MetaTypes, data \in SeqsUpTo(PayloadBytes, MaxPayload) }
        \cup { <<0, 255, 47>>, <<0, 240, 1, 1>>, <<0, 144, 60, 64>>,
               <<0, 241, 0, 255, 47, 0>> }
        \cup MetaSequences

InitMeta ==
    /\ decoder \in MetaDecoders
    /\ debug_assertions \in BOOLEAN
    /\ bytes \in MetaTracks
    /\ cursor = 0
    /\ running_status = None
    /\ events = <<>>
    /\ result = "running"
    /\ error = "none"
    /\ chunks = <<>>
    /\ tracks = <<>>
    /\ ti = 0
    /\ ScannerLogIdle
    /\ BuildIdle

\* One iteration of the loop that reads the track's events.
MetaStep ==
    IF decoder = "core"
    THEN TrackEventsFileStep(bytes, cursor, running_status)
    ELSE parse_event(bytes, cursor, running_status, debug_assertions)

\* `events.push(event)`
ReadTrackEvent ==
    /\ InLoop
    /\ MetaStep.outcome = "event"
    /\ events' = Append(events, MetaStep.event)
    /\ cursor' = MetaStep.cursor
    /\ running_status' = MetaStep.running_status
    /\ UNCHANGED <<decoder, debug_assertions, tracks, ti, bytes, result, error,
                   chunks, op, ret, arg, target_pointer_width, files>>

\* The `continue` of the arm for F1..F6 and F8..FE in file/event/track.rs.
SkipTrackStatus ==
    /\ InLoop
    /\ MetaStep.outcome = "skip"
    /\ cursor' = MetaStep.cursor
    /\ running_status' = MetaStep.running_status
    /\ UNCHANGED <<decoder, debug_assertions, tracks, ti, bytes, events,
                   result, error, chunks, op, ret, arg, target_pointer_width,
                   files>>

\* An `ok_or(..)?` of the iteration returns its error.
FailTrackEvent ==
    /\ InLoop
    /\ MetaStep.outcome = "err"
    /\ result' = "Err"
    /\ error' = MetaStep.error
    /\ events' = EventsOnFailure(events)
    /\ UNCHANGED <<decoder, debug_assertions, tracks, ti, bytes, cursor,
                   running_status, chunks, op, ret, arg, target_pointer_width,
                   files>>

\* The debug_assert! of parse_meta_event fails.
PanicTrackEvent ==
    /\ InLoop
    /\ MetaStep.outcome = "panic"
    /\ result' = "panic"
    /\ events' = EventsOnFailure(events)
    /\ UNCHANGED <<decoder, debug_assertions, tracks, ti, bytes, cursor,
                   running_status, error, chunks, op, ret, arg,
                   target_pointer_width, files>>

\* The loop ends: `Ok(TrackEventsFile(events))`.
FinishTrackEvents ==
    /\ result = "running"
    /\ done(bytes, cursor)
    /\ result' = "converting"
    /\ UNCHANGED <<decoder, debug_assertions, tracks, ti, bytes, cursor,
                   running_status, events, error, chunks, op, ret, arg,
                   target_pointer_width, files>>

ConvertingEvent == result = "converting" /\ ti < Len(events)

\* What the running pipeline makes of an event in its file form.
EventOf(pipeline, event) ==
    IF pipeline = "core"
    THEN CoreEventTryFrom(event.event)
    ELSE EventMetaEventTryFrom(event.kind)

ConvertedEvent == EventOf(decoder, events[ti + 1])

\* The conversion returns Ok(event).
ConvertEvent ==
    /\ ConvertingEvent
    /\ ConvertedEvent.outcome = "Ok"
    /\ chunks' = Append(chunks, ConvertedEvent.event)
    /\ ti' = ti + 1
    /\ UNCHANGED <<decoder, debug_assertions, tracks, bytes, cursor,
                   running_status, events, result, error, op, ret, arg,
                   target_pointer_width, files>>

\* The conversion returns Err(error); ret is the byte an InvalidStatus
\* carries.
FailEvent ==
    /\ ConvertingEvent
    /\ ConvertedEvent.outcome = "Err"
    /\ result' = "Err"
    /\ error' = ConvertedEvent.error
    /\ ret' = ConvertedEvent.carried
    /\ ti' = ti + 1
    /\ UNCHANGED <<decoder, debug_assertions, tracks, bytes, cursor,
                   running_status, events, chunks, op, arg,
                   target_pointer_width, files>>

\* The conversion reaches a todo!().
PanicEvent ==
    /\ ConvertingEvent
    /\ ConvertedEvent.outcome = "panic"
    /\ result' = "panic"
    /\ ti' = ti + 1
    /\ UNCHANGED <<decoder, debug_assertions, tracks, bytes, cursor,
                   running_status, events, error, chunks, op, ret, arg,
                   target_pointer_width, files>>

\* Every event is converted.
FinishEvents ==
    /\ result = "converting"
    /\ ti = Len(events)
    /\ result' = "Ok"
    /\ UNCHANGED <<decoder, debug_assertions, tracks, ti, bytes, cursor,
                   running_status, events, error, chunks, op, ret, arg,
                   target_pointer_width, files>>

NextMeta ==
    \/ ReadTrackEvent
    \/ SkipTrackStatus
    \/ FailTrackEvent
    \/ PanicTrackEvent
    \/ FinishTrackEvents
    \/ ConvertEvent
    \/ FailEvent
    \/ PanicEvent
    \/ FinishEvents

SpecMeta == InitMeta /\ [][NextMeta]_vars

----------------------------------------------------------------------------
(* The meta-event table of the specification, and the meta event that is   *)
(* converted next, as it stands in the track.                              *)

\* The event converted next is a meta event.
NextIsMeta ==
    /\ ConvertingEvent
    /\ IF decoder = "core"
       THEN events[ti + 1].event.tag = "Meta"
       ELSE events[ti + 1].kind.tag = "Meta"

\* Its type byte: the byte that follows the 0xFF in the track.
NextTypeByte ==
    IF decoder = "core"
    THEN events[ti + 1].event.kind
    ELSE events[ti + 1].kind.status

\* Its payload.
NextPayload ==
    IF decoder = "core"
    THEN events[ti + 1].event.data
    ELSE events[ti + 1].kind.data

\* The variant the table gives a type byte.
TableVariant(type) ==
    CASE type = 0 -> "SequenceNumber"
      [] type \in {1} \cup (8..15) -> "TextEvent"
      [] type = 2 -> "CopyrightNotice"
      [] type = 3 -> "SequenceOrTrackName"
      [] type = 4 -> "InstrumentName"
      [] type = 5 -> "Lyric"
      [] type = 6 -> "Marker"
      [] type = 7 -> "CuePoint"
      [] type = 32 -> "MIDIChannelPrefix"
      [] type = 33 -> "MIDIPort"
      [] type = 47 -> "EndOfTrack"
      [] type = 81 -> "SetTempo"
      [] type = 84 -> "SMPTEOffset"
      [] type = 88 -> "TimeSignature"
      [] type = 89 -> "KeySignature"

\* The type bytes of the table, and those of a fixed payload length.
TableTypes == (0..15) \cup {32, 33, 47, 81, 84, 88, 89}
FixedShapeTypes == {0, 32, 33, 81, 84, 88, 89}

\* The payload length the table fixes for a type byte.
TableLength(type) ==
    CASE type = 0 -> 2
      [] type = 32 -> 1
      [] type = 33 -> 1
      [] type = 81 -> 3
      [] type = 84 -> 5
      [] type = 88 -> 4
      [] type = 89 -> 2

\* A payload of the shape the table asks of the type byte.
WellShaped(type, data) ==
    type \in FixedShapeTypes => Len(data) = TableLength(type)

\* The step converts the event: it pushes one decoded event.
EventDecodes ==
    /\ Len(chunks') = Len(chunks) + 1
    /\ SubSeq(chunks', 1, Len(chunks)) = chunks
    /\ result' = result

\* The event the step pushed.
Decoded == chunks'[Len(chunks')]

\* The fields of a decoded fixed-shape event, as bytes in payload order.
FieldBytes(ev) ==
    CASE ev.variant = "SequenceNumber" ->
             <<ev.number \div 256, ev.number % 256>>
      [] ev.variant = "MIDIChannelPrefix" -> <<ev.channel>>
      [] ev.variant = "MIDIPort" -> <<ev.port>>
      [] ev.variant = "SetTempo" ->
             <<ev.tempo \div 65536, (ev.tempo \div 256) % 256, ev.tempo % 256>>
      [] ev.variant = "SMPTEOffset" ->
             <<ev.hours, ev.minutes, ev.seconds, ev.frames,
               ev.fractional_frames>>
      [] ev.variant = "TimeSignature" ->
             <<ev.numerator, ev.denominator,
               ev.midi_clocks_per_metronome_click,
               ev.thirty_second_notes_per_midi_quarter_note>>
      [] ev.variant = "KeySignature" ->
             <<ev.sharps_flats % 256, ev.major_minor>>

\* The errors of a payload that does not have the shape of its type.
DataShapeError == {"InvalidNumber", "InvalidData", "InvalidScannerState"}

\* C24: the meta decoder selects the variant from the type byte that
\* follows 0xFF in the track, not from the 0xFF: a well-shaped meta event
\* read from a track whose type byte is in the table (0x00 SequenceNumber,
\* 0x01 and 0x08..0x0F TextEvent, 0x02 CopyrightNotice, 0x03
\* SequenceOrTrackName, 0x04 InstrumentName, 0x05 Lyric, 0x06 Marker, 0x07
\* CuePoint, 0x20 MIDIChannelPrefix, 0x21 MIDIPort, 0x2F EndOfTrack, 0x51
\* SetTempo, 0x54 SMPTEOffset, 0x58 TimeSignature, 0x59 KeySignature)
\* decodes to the variant of its type byte.
C24_MetaDispatch ==
    [][ (/\ NextIsMeta
         /\ NextTypeByte \in TableTypes
         /\ WellShaped(NextTypeByte, NextPayload))
        => (EventDecodes /\ Decoded.variant = TableVariant(NextTypeByte)) ]_vars

\* C25: a fixed-shape meta event (0x00, 0x20, 0x21, 0x51, 0x54, 0x58, 0x59)
\* decodes if and only if its payload has exactly the table's length (2, 1,
\* 1, 3, 5, 4, 2 bytes), and the decoded fields are the payload bytes in
\* order.
C25_FixedShape ==
    [][ (NextIsMeta /\ NextTypeByte \in FixedShapeTypes)
        => /\ EventDecodes <=> Len(NextPayload) = TableLength(NextTypeByte)
           /\ EventDecodes => FieldBytes(Decoded) = NextPayload ]_vars

\* C26: a payload of the wrong length for a fixed-shape meta type fails
\* with a data-shape error and never with the invalid-meta-status error; a
\* type byte outside the table fails with the invalid-meta-status error
\* carrying exactly that type byte, whatever the payload.
C26_MetaErrorKinds ==
    [][ /\ (/\ NextIsMeta
            /\ NextTypeByte \in FixedShapeTypes
            /\ Len(NextPayload) # TableLength(NextTypeByte))
           => FailsWith(DataShapeError)
        /\ (NextIsMeta /\ NextTypeByte \notin TableTypes)
           => (FailsWith({"InvalidStatus"}) /\ ret' = Some(NextTypeByte)) ]_vars

\* C27: a text meta event (type bytes 0x01..0x0F) never fails to decode,
\* whatever the length of its payload, 0 included, and whatever its bytes,
\* bytes with the high bit set included.
C27_TextNeverFails ==
    [][ (NextIsMeta /\ NextTypeByte \in 1..15) => EventDecodes ]_vars

\* C28: an EndOfTrack meta event (type byte 0x2F) decodes to EndOfTrack
\* whether its payload is empty or not, whatever the payload.
C28_EndOfTrackTolerant ==
    [][ (NextIsMeta /\ NextTypeByte = 47)
        => (EventDecodes /\ Decoded.variant = "EndOfTrack") ]_vars

----------------------------------------------------------------------------
(* The framing of meta events, read off the track.                         *)

\* A meta event begins behind the delta-time at the cursor: the status
\* byte there is 0xFF.
AtMetaEvent == InLoop /\ HasStatusByte /\ StatusByte = 255

\* The cursor behind the type byte that follows the 0xFF.
BehindType == Delta.cursor + 2

\* The VLQ length behind the type byte.
MetaLength == eat_variable_length_quantity(bytes, BehindType)

\* The 0xFF is followed by a type byte, a VLQ length L and at least L
\* bytes.
WellFramedMeta ==
    /\ AtMetaEvent
    /\ BehindType <= Len(bytes)
    /\ IsSome(MetaLength.ret)
    /\ MetaLength.cursor + Unwrap(MetaLength.ret) <= Len(bytes)

\* The step pushes one event.
PushesEvent ==
    /\ Len(events') = Len(events) + 1
    /\ SubSeq(events', 1, Len(events)) = events

\* The type byte a meta event records: `kind` in its file form, `status`
\* in a TrackEventKind.
RecordedType(body) ==
    IF "kind" \in DOMAIN body THEN body.kind ELSE body.status

\* C29: after 0xFF the decoder consumes exactly 1 type byte, then a VLQ
\* length L, then exactly L payload bytes: the event it emits has the L
\* bytes behind the length for its payload, and the next event's
\* delta-time starts at the byte right after the payload.  A meta event of
\* a type byte below 0x80 that is framed so is emitted.
C29_MetaFraming ==
    [][ /\ (AtMetaEvent /\ PushesEvent)
           => /\ WellFramedMeta
              /\ Body(events'[Len(events')]).tag = "Meta"
              /\ RecordedType(Body(events'[Len(events')])) = bytes[BehindType]
              /\ Body(events'[Len(events')]).data
                     = SubSeq(bytes, MetaLength.cursor + 1,
                              MetaLength.cursor + Unwrap(MetaLength.ret))
              /\ Len(Body(events'[Len(events')]).data) = Unwrap(MetaLength.ret)
              /\ cursor' = MetaLength.cursor + Unwrap(MetaLength.ret)
        /\ (WellFramedMeta /\ bytes[BehindType] < 128) => PushesEvent ]_vars

\* A meta event whose length takes two VLQ bytes was read, and the cursor
\* stands at the delta-time of the event behind its one payload byte.
C29_Witness ==
    /\ bytes = <<0, 255, 1, 128, 1, 65, 0, 255, 47, 0>>
    /\ result = "running"
    /\ Len(events) = 1
    /\ Body(events[1]).data = <<65>>
    /\ cursor = 6

----------------------------------------------------------------------------
(* The framing of System Exclusive events, read off the track.             *)

\* A System Exclusive event begins behind the delta-time at the cursor.
AtSysExEvent == InLoop /\ HasStatusByte /\ StatusByte \in {240, 247}

\* The VLQ length behind the 0xF0 or 0xF7.
SysExLength == eat_variable_length_quantity(bytes, Delta.cursor + 1)

\* The 0xF0 or 0xF7 is followed by a VLQ length L and at least L bytes.
WellFramedSysEx ==
    /\ AtSysExEvent
    /\ IsSome(SysExLength.ret)
    /\ SysExLength.cursor + Unwrap(SysExLength.ret) <= Len(bytes)

\* The introducer byte a System Exclusive event records: its `kind` in a
\* TrackEventKind, its `status` in the file form; 0 when it records none.
RecordedIntroducer(body) ==
    IF "kind" \in DOMAIN body
    THEN (IF body.kind = "F0" THEN 240 ELSE 247)
    ELSE IF "status" \in DOMAIN body THEN body.status
    ELSE 0

\* C30: after 0xF0 or 0xF7 the decoder consumes a VLQ length L and exactly
\* L payload bytes, and the event it emits records which of the two
\* introducer bytes was seen: the F0 variant for 0xF0, the F7 variant for
\* 0xF7.
C30_SysExFraming ==
    [][ /\ (AtSysExEvent /\ PushesEvent)
           => /\ WellFramedSysEx
              /\ Body(events'[Len(events')]).tag = "SysEx"
              /\ Body(events'[Len(events')]).data
                     = SubSeq(bytes, SysExLength.cursor + 1,
                              SysExLength.cursor + Unwrap(SysExLength.ret))
              /\ cursor' = SysExLength.cursor + Unwrap(SysExLength.ret)
              /\ RecordedIntroducer(Body(events'[Len(events')])) = StatusByte
        /\ WellFramedSysEx => PushesEvent ]_vars

----------------------------------------------------------------------------
(* The whole-file decode: MIDI::try_from over the raw chunks.              *)

\* The raw chunks before the next one were all converted, and the local
\* chunks vector holds their values in file order.
ConvertedSoFar ==
    /\ Len(chunks) = ti
    /\ \A j \in 1..ti :
           /\ CoreChunkTryFrom(files[j], debug_assertions).outcome = "Ok"
           /\ chunks[j] = CoreChunkTryFrom(files[j], debug_assertions).value

\* C31: when the decode of a header or track chunk fails, MIDI::try_from
\* returns the error of that chunk, the first that fails, and no chunk list:
\* the chunks decoded before it are not returned, and no chunk behind it is
\* decoded (nothing happens once the decode has failed).
C31_FileFailFast ==
    [][ /\ (decoder = "core" /\ result = "converting") => ConvertedSoFar
        /\ (decoder = "core" /\ Converting /\ Convert.outcome = "Err")
           => /\ result' = "Err"
              /\ error' = Convert.error
              /\ chunks' = <<>>
        /\ (decoder = "core" /\ result = "Err") => FALSE ]_vars

\* A header chunk was decoded, the track chunk behind it failed, and the
\* alien chunk behind that was left alone: the decode holds the error and
\* no chunk.
C31_Witness ==
    /\ decoder = "core"
    /\ result = "Err"
    /\ Len(files) = 3
    /\ ti = 2
    /\ files[1].kind = HEADER_CHUNK_KIND
    /\ files[2].kind = TRACK_CHUNK_KIND
    /\ chunks = <<>>
    /\ error # "none"

----------------------------------------------------------------------------
(* The decoding runs together, and their termination: the track runs and   *)
(* the chunk runs.                                                         *)

InitDecode == Init \/ InitFile

NextDecode == Next \/ NextFile

SpecDecode == InitDecode /\ [][NextDecode]_vars

\* A loop of the decode is running: the chunk splitter's, or a track
\* decoder's.
LoopRunning == result \in {"splitting", "running"}

\* The decode is over: it returned its value or its error, or it unwound.
DecodeOver == result \in {"Ok", "Err", "panic"}

\* The decode has a step to take: the next call, the next iteration of its
\* loop with one of the outcomes the loop handles, or the loop's end.
HasNextStep ==
    \/ result = "idle" /\ ti < Len(tracks)
    \/ result = "running"
           /\ (done(bytes, cursor)
                 \/ Step.outcome \in {"event", "skip", "err", "panic"})
    \/ result = "splitting"
           /\ (done(bytes, cursor)
                 \/ SplitStep.outcome \in {"chunk", "err", "panic"})
    \/ result = "converting"
           /\ (ti = Len(files) \/ Convert.outcome \in {"Ok", "Err", "panic"})

\* The bytes the running loop has not consumed: what every iteration that
\* goes on makes smaller.
Unconsumed == Len(bytes) - cursor

\* C32: chunk splitting and track decoding terminate on every buffer: an
\* iteration of either loop ends the loop (with an error, or unwinding) or
\* moves the cursor forward by at least one byte and never past the end of
\* the buffer, a loop whose cursor stands at the end takes no further
\* iteration, and a decode that is not over always has its next step to
\* take.
C32_Termination ==
    /\ [][ LoopRunning
           => /\ (~done(bytes, cursor) /\ LoopRunning')
                 => (Unconsumed' < Unconsumed /\ Unconsumed' >= 0)
              /\ done(bytes, cursor) => ~LoopRunning' ]_vars
    /\ [](DecodeOver \/ HasNextStep)

\* A track decode took three iterations, reached the end of its data and
\* returned.
C32_Witness ==
    /\ decoder = "core"
    /\ result = "Ok"
    /\ Len(events) = 3
    /\ done(bytes, cursor)

----------------------------------------------------------------------------
(* Running status over a run of continuation events.                       *)

\* The running status is a channel-voice status, and the event that begins
\* at the cursor begins with a byte below 0x80.
AtContinuation ==
    /\ InLoop
    /\ IsSome(running_status)
    /\ Unwrap(running_status) \in ChannelVoice
    /\ HasStatusByte
    /\ StatusByte < 128

----------------------------------------------------------------------------
(* The range of the running status.                                        *)

\* C34: in every state of a track decode the running status is absent or a
\* byte in 0x80..0xEF, and every channel-voice event emitted has a status
\* in 0x80..0xEF: no byte in 0xF0..0xFF is stored as running status or
\* emitted as a channel-voice status.
C34_RunningStatusRange ==
    /\ IsSome(running_status) => Unwrap(running_status) \in ChannelVoice
    /\ \A k \in 1..Len(events) :
           Body(events[k]).tag = "MIDI"
               => Body(events[k]).status \in ChannelVoice

----------------------------------------------------------------------------
(* The byte ranges of a track's events.                                    *)

\* The bytes the step consumes: from the cursor before it to the cursor
\* behind it.
ConsumedRange == SubSeq(bytes, cursor + 1, cursor')

\* What the running decoder makes of the consumed range alone.
RangeAlone ==
    TrackStep(decoder, ConsumedRange, 0, running_status, debug_assertions)

\* The data ends right behind the delta-time at the cursor.
EndsAfterDelta == InLoop /\ IsSome(Delta.ret) /\ Delta.cursor = Len(bytes)

\* C35: a successful track decode consumes the chunk data exactly.  Each
\* event emitted is read from the range of bytes that begins where the one
\* before it ended, the range is not empty and lies within the data, and
\* the event is what its range alone decodes to; the cursor moves at an
\* emitted event only (and, in file/event/track.rs, over a status byte it
\* skips); the decode returns its events only with the cursor at the end of
\* the data.  A track that ends right behind a delta-time fails, and no
\* event is emitted for the delta-time.
C35_ExactConsumption ==
    /\ [][ /\ (InLoop /\ PushesEvent)
              => /\ cursor' > cursor
                 /\ cursor' <= Len(bytes)
                 /\ RangeAlone.outcome = "event"
                 /\ RangeAlone.event = events'[Len(events')]
                 /\ RangeAlone.cursor = Len(ConsumedRange)
           /\ (InLoop /\ cursor' # cursor)
              => \/ PushesEvent
                 \/ decoder = "file" /\ StatusByte \in SystemStatus
           /\ EndsAfterDelta
              => /\ result' \in {"Err", "panic"}
                 /\ events' = <<>> ]_vars
    /\ [](result = "Ok" => cursor = Len(bytes))

\* A track of a note-on and an end-of-track was decoded: the two events'
\* ranges, of four bytes each, make up the eight bytes of the data.
C35_Witness ==
    /\ decoder = "description"
    /\ result = "Ok"
    /\ bytes = <<0, 144, 64, 96, 0, 255, 47, 0>>
    /\ Len(events) = 2
    /\ cursor = 8

----------------------------------------------------------------------------
(* The assertion on a meta event's type byte.                              *)

\* The decoder is about to read the type byte of a meta event: a 0xFF
\* stands at the status position and a byte follows it.
ReadsMetaType == AtMetaEvent /\ BehindType <= Len(bytes)

\* C36: the type byte read after a 0xFF introducer is below 0x80 for every
\* meta event the track decoder processes, whatever the input: the
\* decoder's assertion never fails, and no meta event with a type byte of
\* 0x80 or above is emitted.
C36_MetaTypeAsserted ==
    [][ ReadsMetaType
        => /\ bytes[BehindType] < 128
           /\ PushesEvent
              => RecordedType(Body(events'[Len(events')])) < 128 ]_vars

----------------------------------------------------------------------------
(* The cursor behind a failed variable-length quantity, and quantities     *)
(* that are not in their shortest form.                                    *)

\* The smaller of two numbers.
Min(x, y) == IF x <= y THEN x ELSE y

\* C37: a failed eat_variable_length_quantity does not restore the cursor:
\* behind the failure the cursor has advanced by the smaller of 4 and the
\* number of bytes that were available: by 4 when four continuation bytes
\* were read, to the end of the slice when the input ran out.
C37_FailedVlqKeepsCursor ==
    [][ (op' = VlqOp /\ ret' = None)
        => /\ cursor' = cursor + Min(4, Remaining(bytes, cursor))
           /\ Remaining(bytes, cursor) < 4 => cursor' = Len(bytes) ]_vars

\* The quantity 81 80 ran out of input behind its second byte: the read
\* failed and left the cursor at the end of the slice.
C37_Witness ==
    /\ bytes = <<129, 128>>
    /\ op = VlqOp
    /\ ret = None
    /\ cursor = 2

\* C38: quantities that are not in their shortest form are accepted: a
\* leading 0x80 followed by a byte b below 0x80 decodes to b and consumes 2
\* bytes, as the single byte b decodes to b and consumes 1, so that several
\* byte sequences decode to the same value.
C38_NonCanonicalVlq ==
    [][ op' = VlqOp
        => /\ (/\ Remaining(bytes, cursor) >= 2
               /\ bytes[cursor + 1] = 128
               /\ bytes[cursor + 2] < 128)
              => /\ ret' = Some(bytes[cursor + 2])
                 /\ cursor' = cursor + 2
           /\ (/\ Remaining(bytes, cursor) >= 1
               /\ bytes[cursor + 1] < 128)
              => /\ ret' = Some(bytes[cursor + 1])
                 /\ cursor' = cursor + 1 ]_vars

\* The two bytes 80 7F were decoded to 0x7F, the value of the single byte
\* 7F, and the byte behind them was not read.
C38_Witness ==
    /\ bytes = <<128, 127, 255>>
    /\ op = VlqOp
    /\ ret = Some(127)
    /\ cursor = 2

----------------------------------------------------------------------------
(* The status bytes file/event/track.rs skips.                             *)

\* The lenient decoder stands at an event whose status position holds a
\* System Common or System Real-Time byte.
AtSkippedStatus ==
    /\ decoder = "file"
    /\ InLoop
    /\ HasStatusByte
    /\ StatusByte \in SystemStatus

\* C39: in file/event/track.rs a status byte in 0xF1..0xF6 or 0xF8..0xFE is
\* consumed alone, the running status is cleared, no event is emitted for
\* it and the decode goes on with the delta-time behind it; the delta-time
\* read before the skipped byte is dropped: every event emitted carries the
\* delta-time read at the start of its own iteration and nothing more.
C39_SkippedStatus ==
    [][ /\ AtSkippedStatus
           => /\ cursor' = Delta.cursor + 1
              /\ running_status' = None
              /\ events' = events
              /\ result' = "running"
              /\ error' = error
        /\ (decoder = "file" /\ InLoop /\ PushesEvent)
           => events'[Len(events')].delta_time = Unwrap(Delta.ret) ]_vars

\* The byte F4 was skipped with its delta-time of 0x40, and the end-of-track
\* behind it was emitted with its own delta-time of 0.
C39_Witness ==
    /\ decoder = "file"
    /\ bytes = <<64, 244, 0, 255, 47, 0>>
    /\ cursor = 6
    /\ Len(events) = 1
    /\ events[1].delta_time = 0
    /\ Body(events[1]).tag = "Meta"

====
